---- MODULE Spec2Model ----
(***************************************************************************)
(* A model of the admission-control, fatigue, delivery-tracking, guardrail *)
(* and segment components of the AI-CPaaS demonstration platform.          *)
(*                                                                         *)
(* Time of the rate limiter is counted in ticks, TicksPerSecond ticks to a *)
(* second, and token counts are kept multiplied by TicksPerSecond, so that *)
(* elapsed * rate and (n - tokens) / rate of the source are exact integers *)
(* (the source computes them in floating point).                           *)
(***************************************************************************)
EXTENDS Integers, Sequences, FiniteSets, TLC

VARIABLES
    \* ---- RateLimiter (messaging/rate_limiter.py) ----
    config,        \* RateLimitConfig: [burst_capacity, max_requests_per_second]
    tokens,        \* RateLimiter.tokens, times TicksPerSecond
    last_refill,   \* RateLimiter.last_refill, in ticks
    clock,         \* time.time(), in ticks
    last_call,     \* which operation of the limiter ran last
    acquired,      \* what the last acquire returned: [n, ok, retry_after]
    available,     \* what the last get_available_tokens returned
    scenario,      \* how far the burst scenario (B calls, one more, wait, retry) got
    \* ---- ThroughputManager.wait_for_capacity ----
    wpc,           \* position of the caller: idle, poll, check, sleep, done
    wait,          \* its locals: [count, max_wait, start_time, elapsed, wait_time, result]
    \* ---- DynamoDBRateLimiter ----
    dry_run,       \* DynamoDBRateLimiter.dry_run
    store_mode,    \* what the managed store does with the update expression
    item,          \* the table's item for the key channel#region: None or Some([tokens, last_refill])
    dpc,           \* per caller: idle, or update (now is read, the update not yet applied)
    dcall,         \* per caller: [n, now] of the acquire in progress
    dist_last,     \* the last finished acquire: [n, now, before, outcome, ok, retry_after, raised]
    \* ---- BaseFatigueProtection (engines/fatigue/base.py) ----
    utcnow,                  \* datetime.utcnow(), in seconds; second 0 starts a Monday
    frequency_tracking,      \* _frequency_tracking: customer -> None or Some(CommunicationFrequency)
    disengagement_signals,   \* _disengagement_signals: customer -> sequence of signals
    fatigue_result,          \* None, or Some(result of the check_fatigue that ran last)
    tracked,                 \* per customer, the times of the sends tracked so far
    \* ---- DeliveryTracker (messaging/delivery_tracker.py) ----
    trk_now,           \* datetime.utcnow() of the tracker, in clock readings
    deliveries,        \* deliveries: message id -> None or Some(DeliveryRecord)
    customer_history,  \* customer_history: customer -> sequence of message ids
    channel_stats,     \* channel_stats: channel -> None or Some(ChannelStats)
    update_result,     \* None, or Some([message_id, record]) of the update_status that ran last
    \* ---- BaseSafetyGuardrail (engines/guardrail/base.py) ----
    request,           \* the check being made: sentiment analysis, message, last interaction
    safety,            \* None, or Some(SafetyCheckResult) of check_safety on the request
    \* ---- segments of DemoQueryInterface (data/demo_query.py) ----
    seg_now,           \* datetime.now(), in seconds
    segments,          \* segments: the set of <<criteria, segment id>> entries
    seg_last,          \* None, or Some(the last _get_or_create_segment_id call and its result)
    \* ---- AWSNativeFatigueProtection (engines/fatigue/aws_native.py) ----
    frequency_table,   \* the store's frequency table: customer -> None or Some(item)
    aws_last,          \* None, or Some(the last store-backed check: what was held before it)
    \* agents/base.py: BaseAIAgent
    decisions_history, \* self.decisions_history: sequence of decisions
    decision_log,      \* every decision handed to _record_decision so far, in order
    recent_decisions,  \* None, or Some(what get_recent_decisions returned last)
    \* web/app.py: POST /api/send-campaign
    is_production,     \* IS_PRODUCTION
    web_request,       \* None, or Some(body) of the request being answered or answered last
    web_response,      \* None, or Some(status code) answered last
    users_by_channel,  \* channel -> the users grouped under it
    rate_limiters,     \* None, or channel -> [tokens, last_refill]
    cpc,               \* where send_campaign stands: idle, acquire, sleep, reacquire, send, done
    cursor,            \* [channel, i]: the user being sent
    can_send,          \* (can_send, retry_after) of the latest acquire(1)
    web_now,           \* time.time(), in ticks
    dispatched,        \* every message handed to a dispatch client, in order
    web_recorded,      \* every delivery_tracker.record_sent call, in order
    \* messaging/aws_messaging.py and example_aws_messaging.py
    client,            \* AWSEndUserMessaging: [dry_run, phone_pool_id, whatsapp_business_account_id]
    msg_request,       \* None, or Some(the request of the last send_message)
    msg_response,      \* None, or Some(the MessageResponse it returned)
    api_calls,         \* the requests handed to the provider's API, in order
    num_customers,     \* args.num_customers of the example
    ex_pc,             \* where the example stands: idle, send, record, update, done
    ex_i,              \* the index of the customer, then of the message id, in turn
    \* data/demo_query.py: DemoQueryEngine._calculate_after_metrics
    results,           \* the results dictionary handed to _calculate_after_metrics
    after_metrics,     \* None, or Some(what it returned)
    \* engines/fatigue/aws_native.py: a second engine instance on the same store
    peer_frequency_tracking, \* its _frequency_tracking
    \* the tokens that acquire granted at each instant (tokens x TicksPerSecond)
    granted_at,
    \* the first check_fatigue that blocked for a frequency limit: whom, when, its delay
    blocked_at,
    signals_table,   \* the stored disengagement signals of each customer
    pending_saves,   \* the _save_signal_to_dynamodb tasks created and not yet run
    signals_recorded \* the signals record_disengagement_signal has returned for

limVars == <<config, tokens, last_refill, clock, last_call, acquired, available, scenario>>
waitVars == <<wpc, wait>>
distVars == <<dry_run, store_mode, item, dpc, dcall, dist_last>>

fatVars == <<utcnow, frequency_tracking, disengagement_signals, fatigue_result, tracked>>

\* the state of the components other than the rate limiters
trkVars == <<trk_now, deliveries, customer_history, channel_stats, update_result>>
grdVars == <<request, safety>>
segVars == <<seg_now, segments, seg_last>>
awsVars == <<frequency_table, aws_last>>

\* the state of the components added to the model later
agtVars == <<decisions_history, decision_log, recent_decisions>>
webVars == <<is_production, web_request, web_response, users_by_channel, rate_limiters,
             cpc, cursor, can_send, web_now, dispatched, web_recorded>>
msgVars == <<client, msg_request, msg_response, api_calls, num_customers, ex_pc, ex_i>>
metVars == <<results, after_metrics>>
peerVars == <<peer_frequency_tracking>>
grantVars == <<granted_at>>
gateVars == <<blocked_at>>
sigVars == <<signals_table, pending_saves, signals_recorded>>
lateVars == <<metVars, peerVars, grantVars, gateVars, sigVars>>
moreVars == <<agtVars, webVars, msgVars, lateVars>>
extVars == <<awsVars, moreVars>>

restVars == <<fatVars, trkVars, grdVars, segVars, extVars>>

\* what the fatigue engine, the tracker, the guardrail and the segments leave alone
notFat == <<limVars, waitVars, distVars, trkVars, grdVars, segVars, extVars>>
notTrk == <<limVars, waitVars, distVars, fatVars, grdVars, segVars, extVars>>
notGrd == <<limVars, waitVars, distVars, fatVars, trkVars, segVars, extVars>>
notSeg == <<limVars, waitVars, distVars, fatVars, trkVars, grdVars, extVars>>

vars == <<limVars, waitVars, distVars, restVars>>

-----------------------------------------------------------------------------
\* Bounds of the model.
MaxBurst == 3
MaxRate == 2
MaxCount == 2
MaxSeconds == 2
MaxWait == 3
MaxTracked == 4
MaxSignals == 1
MaxDays == 2
MaxMessages == 6
MaxStamp == 1
MaxUpdates == 2
MaxNegative == 2
MaxSegSeconds == 1
MaxSegments == 3
MaxDailyCount == 4
MaxWeeklyCount == 11
MaxMonthlyCount == 31
MaxTrackerIds == 2
MaxDecisions == 102
MaxUsers == 6
MaxCustomers == 3
MaxCalls == 1
MaxEligible == 4

\* Optional values of the source: None, or a value x as Some(x).
None == <<>>
Some(x) == <<x>>
The(o) == o[1]

Min(a, b) == IF a <= b THEN a ELSE b
Max(a, b) == IF a >= b THEN a ELSE b

Bursts == 1..MaxBurst
Counts == 1..MaxCount

\* The resolution of time. The rates of the model are those at which a deficit of
\* whole tokens refills in a whole number of ticks.
TicksPerSecond == MaxRate
Rates == {r \in 1..MaxRate : TicksPerSecond % r = 0}

MaxClock == MaxSeconds * TicksPerSecond

-----------------------------------------------------------------------------
\* RateLimiter

max_tokens == config.burst_capacity * TicksPerSecond
refill_rate == config.max_requests_per_second

\* tokens after the refill of acquire: min(max_tokens, tokens + elapsed * refill_rate)
RefillUncapped(tok, elapsed, rate, maxTok) == tok + elapsed * rate
Refill(tok, elapsed, rate, maxTok) == Min(maxTok, tok + elapsed * rate)

\* retry_after = tokens_needed / refill_rate, in ticks
RetryAfterFull(n, tok, rate) == (n * TicksPerSecond) \div rate
RetryAfter(n, tok, rate) == (n * TicksPerSecond - tok) \div rate

\* if self.tokens >= tokens
EnoughStrict(tok, n) == tok > n * TicksPerSecond
Enough(tok, n) == tok >= n * TicksPerSecond

AcquireOnUnchecked(lim, now, n, rate, maxTok) ==
    LET refilled == Refill(lim.tokens, now - lim.last_refill, rate, maxTok)
    IN  [tokens |-> refilled - n * TicksPerSecond, last_refill |-> now,
         ok |-> TRUE, retry_after |-> None]

\* RateLimiter.acquire on a limiter [tokens, last_refill] at time now:
\* the new limiter state and the returned (success, retry_after).
AcquireOn(lim, now, n, rate, maxTok) ==
    LET refilled == Refill(lim.tokens, now - lim.last_refill, rate, maxTok)
    IN  IF Enough(refilled, n)
        THEN [tokens |-> refilled - n * TicksPerSecond, last_refill |-> now,
              ok |-> TRUE, retry_after |-> None]
        ELSE [tokens |-> refilled, last_refill |-> now,
              ok |-> FALSE, retry_after |-> Some(RetryAfter(n, refilled, rate))]

\* The burst scenario: from construction, with no time elapsed, acquire(1) is
\* called burst_capacity times, then once more; the caller then waits at least the
\* reported retry_after and calls acquire(1) again. Any other call leaves it.
ScenarioAfter(n, r) ==
    IF scenario.phase = "burst" /\ n = 1 /\ clock = 0
    THEN [phase |-> IF scenario.k + 1 > config.burst_capacity THEN "limited" ELSE "burst",
          k |-> scenario.k + 1]
    ELSE IF /\ scenario.phase = "limited" /\ n = 1
            /\ acquired.retry_after # None
            /\ clock - last_refill >= The(acquired.retry_after)
         THEN [phase |-> "retried", k |-> scenario.k]
         ELSE [phase |-> "off", k |-> 0]

LimInit ==
    /\ config \in [burst_capacity : Bursts, max_requests_per_second : Rates]
    /\ tokens = config.burst_capacity * TicksPerSecond
    /\ last_refill = 0
    /\ clock = 0
    /\ last_call = "none"
    /\ acquired = [n |-> 0, ok |-> FALSE, retry_after |-> None]
    /\ available = None
    /\ scenario = [phase |-> "burst", k |-> 0]

\* the limiter of the specifications that never use it
LimIdle ==
    /\ config = [burst_capacity |-> 1, max_requests_per_second |-> 1]
    /\ tokens = TicksPerSecond
    /\ last_refill = 0
    /\ clock = 0
    /\ last_call = "none"
    /\ acquired = [n |-> 0, ok |-> FALSE, retry_after |-> None]
    /\ available = None
    /\ scenario = [phase |-> "off", k |-> 0]

WaitIdle ==
    /\ wpc = "idle"
    /\ wait = [count |-> 0, max_wait |-> 0, start_time |-> 0, elapsed |-> 0,
               wait_time |-> 0, result |-> None]

\* time.time() moves on
LimiterTick ==
    /\ clock < MaxClock
    /\ clock' = clock + 1
    /\ UNCHANGED <<config, tokens, last_refill, last_call, acquired, available, scenario>>

Tick ==
    /\ LimiterTick
    /\ UNCHANGED <<waitVars, distVars, restVars>>

\* RateLimiter.acquire, on the limiter's own state
LimiterAcquire(n) ==
    LET r == AcquireOn([tokens |-> tokens, last_refill |-> last_refill],
                       clock, n, refill_rate, max_tokens)
    IN  /\ tokens' = r.tokens
        /\ last_refill' = r.last_refill
        /\ acquired' = [n |-> n, ok |-> r.ok, retry_after |-> r.retry_after]
        /\ last_call' = "acquire"
        /\ scenario' = ScenarioAfter(n, r)
        /\ UNCHANGED <<config, clock, available>>

Acquire(n) ==
    /\ LimiterAcquire(n)
    /\ UNCHANGED <<waitVars, distVars, restVars>>

\* RateLimiter.get_available_tokens: int(min(max_tokens, tokens + elapsed * rate))
GetAvailableTokensStoring ==
    /\ available' = Some(Refill(tokens, clock - last_refill, refill_rate, max_tokens) \div TicksPerSecond)
    /\ tokens' = Refill(tokens, clock - last_refill, refill_rate, max_tokens)
    /\ last_call' = "get_available_tokens"
    /\ UNCHANGED <<config, last_refill, clock, acquired, scenario>>
    /\ UNCHANGED <<waitVars, distVars, restVars>>

GetAvailableTokens ==
    /\ available' = Some(Refill(tokens, clock - last_refill, refill_rate, max_tokens) \div TicksPerSecond)
    /\ last_call' = "get_available_tokens"
    /\ UNCHANGED <<config, tokens, last_refill, clock, acquired, scenario>>
    /\ UNCHANGED <<waitVars, distVars, restVars>>

LimNext ==
    \/ Tick
    \/ \E n \in Counts : Acquire(n)
    \/ GetAvailableTokens

-----------------------------------------------------------------------------
\* ThroughputManager.wait_for_capacity, on the manager's in-memory limiter.
\* The code is single-threaded and the wait sleeps synchronously: other callers
\* use the limiter before the wait starts, none while it runs.

\* wait_time = min(retry_after or 1.0, max_wait - elapsed)
WaitTimeUnbounded(retry, max_wait, elapsed) ==
    IF retry = None \/ retry = Some(0) THEN TicksPerSecond ELSE The(retry)
WaitTime(retry, max_wait, elapsed) ==
    Min(IF retry = None \/ retry = Some(0) THEN TicksPerSecond ELSE The(retry),
        max_wait - elapsed)

\* start_time = time.time()
WaitStart(count, max_wait) ==
    /\ wpc = "idle"
    /\ wpc' = "poll"
    /\ wait' = [wait EXCEPT !.count = count, !.max_wait = max_wait, !.start_time = clock]
    /\ UNCHANGED <<limVars, distVars, restVars>>

\* can_send, result = self.can_send(channel, count, region); if can_send: return True
WaitPoll ==
    /\ wpc = "poll"
    /\ LET r == AcquireOn([tokens |-> tokens, last_refill |-> last_refill],
                          clock, wait.count, refill_rate, max_tokens)
       IN  /\ tokens' = r.tokens
           /\ last_refill' = r.last_refill
           /\ acquired' = [n |-> wait.count, ok |-> r.ok, retry_after |-> r.retry_after]
           /\ last_call' = "acquire"
           /\ scenario' = ScenarioAfter(wait.count, r)
           /\ IF r.ok
              THEN /\ wpc' = "done"
                   /\ wait' = [wait EXCEPT !.result = Some(TRUE)]
              ELSE /\ wpc' = "check"
                   /\ UNCHANGED wait
    /\ UNCHANGED <<config, clock, available, distVars, restVars>>

\* elapsed = time.time() - start_time; if elapsed >= max_wait: return False;
\* else wait_time = min(retry_after or 1.0, max_wait - elapsed)
WaitCheck ==
    /\ wpc = "check"
    /\ LET elapsed == clock - wait.start_time
       IN  IF elapsed >= wait.max_wait
           THEN /\ wpc' = "done"
                /\ wait' = [wait EXCEPT !.elapsed = elapsed, !.result = Some(FALSE)]
           ELSE /\ wpc' = "sleep"
                /\ wait' = [wait EXCEPT !.elapsed = elapsed,
                               !.wait_time = WaitTime(acquired.retry_after, wait.max_wait, elapsed)]
    /\ UNCHANGED <<limVars, distVars, restVars>>

\* time.sleep(wait_time)
WaitSleep ==
    /\ wpc = "sleep"
    /\ clock' = clock + wait.wait_time
    /\ wpc' = "poll"
    /\ UNCHANGED <<config, tokens, last_refill, last_call, acquired, available, scenario, wait>>
    /\ UNCHANGED <<distVars, restVars>>

WaitStep == WaitPoll \/ WaitCheck \/ WaitSleep

\* Before the wait the limiter is used by earlier sends; during it only time passes.
WaitNext ==
    \/ wpc \notin {"idle", "done"} /\ Tick
    \/ wpc = "idle" /\ \E n \in Counts : Acquire(n)
    \/ \E count \in 1..(MaxBurst + 1), max_wait \in 0..MaxWait : WaitStart(count, max_wait)
    \/ WaitStep

-----------------------------------------------------------------------------
\* DynamoDBRateLimiter: callers in several processes share the item of one key.

\* two processes that share the table
Callers == {"c1", "c2"}

\* What the store does with an update expression that assigns tokens twice: it
\* rejects the expression (a validation error), or it applies the first or the
\* last of the two assignments.
StoreModes == {"reject", "first", "last"}

\* table.update_item: the condition and both right-hand sides are evaluated on the
\* stored item;  tokens >= :tokens_needed OR attribute_not_exists(tokens);
\* SET tokens = if_not_exists(tokens, :max_tokens) + (:now - if_not_exists(last_refill, :now)) * :refill_rate,
\*     tokens = if_not_exists(tokens, :max_tokens) - :tokens_needed,  last_refill = :now
StoreUpdate(it, n, now, rate, maxTok, mode) ==
    LET tok0 == IF it = None THEN maxTok ELSE The(it).tokens
        lr0 == IF it = None THEN now ELSE The(it).last_refill
        first == tok0 + (now - lr0) * rate
        last == tok0 - n * TicksPerSecond
        cond == it = None \/ The(it).tokens >= n * TicksPerSecond
    IN  IF mode = "reject" THEN [outcome |-> "error", item |-> it]
        ELSE IF ~cond THEN [outcome |-> "condition_failed", item |-> it]
        ELSE [outcome |-> "updated",
              item |-> Some([tokens |-> IF mode = "first" THEN first ELSE last,
                             last_refill |-> now])]

\* except Exception: fail open
OnStoreErrorClosed(n, rate) ==
    [ok |-> FALSE, retry_after |-> Some((n * TicksPerSecond) \div rate), raised |-> FALSE]
OnStoreError(n, rate) == [ok |-> TRUE, retry_after |-> None, raised |-> FALSE]

\* what acquire returns for each outcome of the update
DistResult(outcome, n, rate) ==
    IF outcome = "updated" THEN [ok |-> TRUE, retry_after |-> None, raised |-> FALSE]
    ELSE IF outcome = "condition_failed"
         THEN [ok |-> FALSE, retry_after |-> Some((n * TicksPerSecond) \div rate),
               raised |-> FALSE]
         ELSE OnStoreError(n, rate)

NoCall == [n |-> 0, now |-> 0]

DistIdle ==
    /\ dry_run = FALSE
    /\ store_mode = "reject"
    /\ item = None
    /\ dpc = [c \in Callers |-> "idle"]
    /\ dcall = [c \in Callers |-> NoCall]
    /\ dist_last = [n |-> 0, now |-> 0, before |-> None, outcome |-> "none",
                    ok |-> FALSE, retry_after |-> None, raised |-> FALSE]

DistInit ==
    /\ dry_run \in BOOLEAN
    /\ store_mode \in StoreModes
    /\ item = None
    /\ dpc = [c \in Callers |-> "idle"]
    /\ dcall = [c \in Callers |-> NoCall]
    /\ dist_last = [n |-> 0, now |-> 0, before |-> None, outcome |-> "none",
                    ok |-> FALSE, retry_after |-> None, raised |-> FALSE]

\* acquire, up to the call of the store: in dry run the fallback in-memory limiter
\* answers; otherwise now = time.time() is read
DistBegin(c, n) ==
    /\ dpc[c] = "idle"
    /\ IF dry_run
       THEN LET r == AcquireOn([tokens |-> tokens, last_refill |-> last_refill],
                               clock, n, refill_rate, max_tokens)
            IN  /\ tokens' = r.tokens
                /\ last_refill' = r.last_refill
                /\ acquired' = [n |-> n, ok |-> r.ok, retry_after |-> r.retry_after]
                /\ last_call' = "acquire"
                /\ scenario' = ScenarioAfter(n, r)
                /\ dist_last' = [n |-> n, now |-> clock,
                                 before |-> Some([tokens |-> tokens, last_refill |-> last_refill]),
                                 outcome |-> "dry_run", ok |-> r.ok,
                                 retry_after |-> r.retry_after, raised |-> FALSE]
                /\ UNCHANGED <<dpc, dcall>>
       ELSE /\ dpc' = [dpc EXCEPT ![c] = "update"]
            /\ dcall' = [dcall EXCEPT ![c] = [n |-> n, now |-> clock]]
            /\ UNCHANGED <<tokens, last_refill, acquired, last_call, scenario, dist_last>>
    /\ UNCHANGED <<config, clock, available, dry_run, store_mode, item, waitVars, restVars>>

\* the store applies the update atomically, or fails with some other error
\* (throttling, network); acquire returns
DistUpdate(c, failure) ==
    /\ dpc[c] = "update"
    /\ LET n == dcall[c].n
           r == IF failure THEN [outcome |-> "error", item |-> item]
                ELSE StoreUpdate(item, n, dcall[c].now, refill_rate, max_tokens, store_mode)
           res == DistResult(r.outcome, n, refill_rate)
       IN  /\ item' = r.item
           /\ dist_last' = [n |-> n, now |-> dcall[c].now, before |-> item,
                            outcome |-> r.outcome, ok |-> res.ok,
                            retry_after |-> res.retry_after, raised |-> res.raised]
    /\ dpc' = [dpc EXCEPT ![c] = "idle"]
    /\ dcall' = [dcall EXCEPT ![c] = NoCall]
    /\ UNCHANGED <<limVars, dry_run, store_mode, waitVars, restVars>>

\* time.time() moves on by a second
DistTick ==
    /\ clock + TicksPerSecond <= MaxClock
    /\ clock' = clock + TicksPerSecond
    /\ UNCHANGED <<config, tokens, last_refill, last_call, acquired, available, scenario>>
    /\ UNCHANGED <<waitVars, distVars, restVars>>

DistNext ==
    \/ DistTick
    \/ \E c \in Callers, n \in {1, 2} : DistBegin(c, n)
    \/ \E c \in Callers, failure \in BOOLEAN : DistUpdate(c, failure)

-----------------------------------------------------------------------------
\* BaseFatigueProtection

Customers == {"c1"}
ChannelType == {"sms", "email"}

Minute == 60
Day == 24 * 60 * Minute

daily_threshold == 3
weekly_threshold == 10
monthly_threshold == 30
disengagement_window_days == 7

\* Scores and severities are fractions of ScoreUnit: 0.7 is 7 * ScoreUnit \div 10.
ScoreUnit == 10 * daily_threshold * weekly_threshold * monthly_threshold
StrongSeverity == (7 * ScoreUnit) \div 10

\* CommunicationFrequency(customer_id=customer_id)
NewFrequency ==
    [daily_count |-> 0, weekly_count |-> 0, monthly_count |-> 0,
     last_message_time |-> None, channel_breakdown |-> [ch \in ChannelType |-> 0],
     fatigue_score |-> 0]

\* _calculate_fatigue_score: 0.5 min(1, daily/3) + 0.3 min(1, weekly/10) + 0.2 min(1, monthly/30)
CalculateFatigueScore(f) ==
    5 * Min(f.daily_count, daily_threshold) * weekly_threshold * monthly_threshold
    + 3 * Min(f.weekly_count, weekly_threshold) * daily_threshold * monthly_threshold
    + 2 * Min(f.monthly_count, monthly_threshold) * daily_threshold * weekly_threshold

\* max(daily/3, weekly/10, monthly/30) >= num/10
PctAtLeast(f, num) ==
    \/ 10 * f.daily_count >= num * daily_threshold
    \/ 10 * f.weekly_count >= num * weekly_threshold
    \/ 10 * f.monthly_count >= num * monthly_threshold

CalculateFatigueLevelHighFromSixTenths(f) ==
    IF PctAtLeast(f, 6) THEN "high"
    ELSE "low"

\* _calculate_fatigue_level
CalculateFatigueLevel(f) ==
    IF PctAtLeast(f, 9) THEN "high"
    ELSE IF PctAtLeast(f, 6) THEN "medium"
    ELSE "low"

\* _calculate_delay_until_next_day: int(seconds until the next midnight / 60)
DelayUntilNextDay(now) == (Day - (now % Day)) \div Minute

\* _calculate_delay_until_next_week: minutes until the next Monday midnight
DelayUntilNextWeek(now) ==
    LET weekday == (now \div Day) % 7
        d == (7 - weekday) % 7
        days_until_monday == IF d = 0 THEN 7 ELSE d
    IN  (((now \div Day) + days_until_monday) * Day - now) \div Minute

\* detect_disengagement_signals: the stored signals of the window, and a synthetic
\* low_engagement signal when weekly_count > 5 and fatigue_score > 0.7
DetectDisengagementSignals(c, now) ==
    LET stored == SelectSeq(disengagement_signals[c],
                            LAMBDA s : s.timestamp >= now - disengagement_window_days * Day)
        f == frequency_tracking[c]
    IN  IF f # None /\ The(f).weekly_count > 5 /\ The(f).fatigue_score > StrongSeverity
        THEN Append(stored, [signal_type |-> "low_engagement", timestamp |-> now,
                             severity |-> The(f).fatigue_score])
        ELSE stored

\* if frequency.daily_count >= self.daily_threshold
DailyLimitReachedStrict(f) == f.daily_count > daily_threshold
DailyLimitReached(f) == f.daily_count >= daily_threshold

\* the delay that the high-fatigue rule leaves: max(recommended_delay, 1440)
HighFatigueDelayKept(delay) == delay

HighFatigueDelay(delay) == Max(delay, Day \div Minute)

\* the delay that the strong-signal rule leaves: max(recommended_delay, 2880)
StrongSignalDelayKept(delay) == delay

StrongSignalDelay(delay) == Max(delay, (2 * Day) \div Minute)

\* check_fatigue: the decision for customer c at time now
CheckFatigue(c, now) ==
    LET f == IF frequency_tracking[c] = None THEN NewFrequency ELSE The(frequency_tracking[c])
        level == CalculateFatigueLevel(f)
        signals == DetectDisengagementSignals(c, now)
        daily == DailyLimitReached(f)
        weekly == f.weekly_count >= weekly_threshold
        high == level = "high"
        strong == \E i \in 1..Len(signals) : signals[i].severity > StrongSeverity
        allow == ~(daily \/ weekly \/ high \/ strong)
        medium == level = "medium" /\ allow
        d1 == IF daily THEN DelayUntilNextDay(now) ELSE 0
        d2 == IF weekly /\ d1 = 0 THEN DelayUntilNextWeek(now) ELSE d1
        d3 == IF high THEN HighFatigueDelay(d2) ELSE d2
        d4 == IF strong THEN StrongSignalDelay(d3) ELSE d3
        d5 == IF medium THEN 240 ELSE d4
    IN  [customer_id |-> c,
         allow_message |-> allow,
         fatigue_level |-> level,
         recommended_delay |-> d5,
         protection_reason |->
               (IF daily THEN <<"Daily limit reached">> ELSE <<>>)
            \o (IF weekly THEN <<"Weekly limit reached">> ELSE <<>>)
            \o (IF high THEN <<"Customer showing high fatigue signals">> ELSE <<>>)
            \o (IF strong THEN <<"Strong disengagement signals detected">> ELSE <<>>)
            \o (IF medium THEN <<"Customer approaching fatigue threshold">> ELSE <<>>),
         alternative_actions |->
               (IF daily THEN <<"Wait until tomorrow to send message">> ELSE <<>>)
            \o (IF weekly THEN <<"Reduce communication frequency this week">> ELSE <<>>)
            \o (IF high THEN <<"Pause non-critical communications for 48 hours">> ELSE <<>>)
            \o (IF strong THEN <<"Review customer preferences and reduce frequency">> ELSE <<>>)
            \o (IF medium THEN <<"Consider spacing out future messages">> ELSE <<>>)]

\* track_communication_frequency: the record after a send on channel at time now
TrackFrequencyMonthlyKept(f, channel, now) ==
    LET since == IF f.last_message_time = None THEN 0
                 ELSE (now - The(f.last_message_time)) \div Day
        known == f.last_message_time # None
    IN  [f EXCEPT
            !.daily_count = (IF known /\ since >= 1 THEN 0 ELSE @) + 1,
            !.weekly_count = (IF known /\ since >= 7 THEN 0 ELSE @) + 1,
            !.monthly_count = @ + 1,
            !.last_message_time = Some(now),
            !.channel_breakdown[channel] = @ + 1]

TrackFrequencyWindowsSwapped(f, channel, now) ==
    LET since == IF f.last_message_time = None THEN 0
                 ELSE (now - The(f.last_message_time)) \div Day
        known == f.last_message_time # None
        counted == [f EXCEPT
            !.daily_count = (IF known /\ since >= 7 THEN 0 ELSE @) + 1,
            !.weekly_count = (IF known /\ since >= 1 THEN 0 ELSE @) + 1,
            !.monthly_count = (IF known /\ since >= 30 THEN 0 ELSE @) + 1,
            !.last_message_time = Some(now),
            !.channel_breakdown[channel] = @ + 1]
    IN  [counted EXCEPT !.fatigue_score = CalculateFatigueScore(counted)]

TrackFrequency(f, channel, now) ==
    LET since == IF f.last_message_time = None THEN 0
                 ELSE (now - The(f.last_message_time)) \div Day
        known == f.last_message_time # None
        counted == [f EXCEPT
            !.daily_count = (IF known /\ since >= 1 THEN 0 ELSE @) + 1,
            !.weekly_count = (IF known /\ since >= 7 THEN 0 ELSE @) + 1,
            !.monthly_count = (IF known /\ since >= 30 THEN 0 ELSE @) + 1,
            !.last_message_time = Some(now),
            !.channel_breakdown[channel] = @ + 1]
    IN  [counted EXCEPT !.fatigue_score = CalculateFatigueScore(counted)]

FatIdle ==
    /\ utcnow = 0
    /\ frequency_tracking = [c \in Customers |-> None]
    /\ disengagement_signals = [c \in Customers |-> <<>>]
    /\ fatigue_result = None
    /\ tracked = [c \in Customers |-> <<>>]

\* The instants at which the engine is called: each day at noon and in the last
\* minute of the day.
TimePoints ==
    {d * Day + Day \div 2 : d \in 0..(MaxDays - 1)}
        \cup {d * Day + Day - Minute \div 2 : d \in 0..(MaxDays - 1)}

TotalTracked == LET RECURSIVE Sum(_)
                    Sum(S) == IF S = {} THEN 0
                              ELSE LET c == CHOOSE x \in S : TRUE
                                   IN  Len(tracked[c]) + Sum(S \ {c})
                IN  Sum(Customers)

TotalSignals == LET RECURSIVE Sum(_)
                    Sum(S) == IF S = {} THEN 0
                              ELSE LET c == CHOOSE x \in S : TRUE
                                   IN  Len(disengagement_signals[c]) + Sum(S \ {c})
                IN  Sum(Customers)

FatInit ==
    /\ utcnow \in TimePoints
    /\ frequency_tracking = [c \in Customers |-> None]
    /\ disengagement_signals = [c \in Customers |-> <<>>]
    /\ fatigue_result = None
    /\ tracked = [c \in Customers |-> <<>>]

\* datetime.utcnow() moves on to the instant t
FatAdvance(t) ==
    /\ t > utcnow
    /\ utcnow' = t
    /\ fatigue_result' = None
    /\ UNCHANGED <<frequency_tracking, disengagement_signals, tracked>>
    /\ UNCHANGED notFat

TrackCommunicationFrequency(c, channel) ==
    /\ TotalTracked < MaxTracked
    /\ LET f == IF frequency_tracking[c] = None THEN NewFrequency
                ELSE The(frequency_tracking[c])
       IN  frequency_tracking' =
               [frequency_tracking EXCEPT ![c] = Some(TrackFrequency(f, channel, utcnow))]
    /\ tracked' = [tracked EXCEPT ![c] = Append(@, utcnow)]
    /\ fatigue_result' = None
    /\ UNCHANGED <<utcnow, disengagement_signals>>
    /\ UNCHANGED notFat

\* record_disengagement_signal, with a signal stamped now
RecordDisengagementSignal(c, signal_type, severity) ==
    /\ TotalSignals < MaxSignals
    /\ disengagement_signals' = [disengagement_signals EXCEPT ![c] =
           Append(@, [signal_type |-> signal_type, timestamp |-> utcnow,
                      severity |-> severity])]
    /\ fatigue_result' = None
    /\ UNCHANGED <<utcnow, frequency_tracking, tracked>>
    /\ UNCHANGED notFat

CheckFatigueRequest(c) ==
    /\ fatigue_result' = Some(CheckFatigue(c, utcnow))
    /\ UNCHANGED <<utcnow, frequency_tracking, disengagement_signals, tracked>>
    /\ UNCHANGED notFat

\* the severities tried: a weak (0.5) and a strong (0.8) signal
Severities == {ScoreUnit \div 2, (8 * ScoreUnit) \div 10}

FatNext ==
    \/ \E t \in TimePoints : FatAdvance(t)
    \/ \E c \in Customers, channel \in ChannelType : TrackCommunicationFrequency(c, channel)
    \/ \E c \in Customers, severity \in Severities :
           RecordDisengagementSignal(c, "unsubscribe", severity)
    \/ \E c \in Customers : CheckFatigueRequest(c)

-----------------------------------------------------------------------------
\* DeliveryTracker

TrkCustomers == {"c1"}
TrkChannels == {"sms", "email"}
MessageIds == 1..MaxMessages
DeliveryStatus ==
    {"pending", "sent", "delivered", "failed", "bounced", "complained", "unsubscribed"}

\* ChannelStats(channel=channel)
ChannelStats ==
    [total_sent |-> 0, total_delivered |-> 0, total_failed |-> 0,
     total_bounced |-> 0, total_complained |-> 0]

\* _update_channel_stats
UpdateChannelStats(stats, channel, event) ==
    LET cur == IF stats[channel] = None THEN ChannelStats ELSE The(stats[channel])
        new == CASE event = "sent" -> [cur EXCEPT !.total_sent = @ + 1]
                 [] event = "delivered" -> [cur EXCEPT !.total_delivered = @ + 1]
                 [] event = "failed" -> [cur EXCEPT !.total_failed = @ + 1]
                 [] event = "bounced" -> [cur EXCEPT !.total_bounced = @ + 1]
                 [] event = "complained" -> [cur EXCEPT !.total_complained = @ + 1]
                 [] OTHER -> cur
    IN  [stats EXCEPT ![channel] = Some(new)]

\* records.sort(key=lambda r: r.sent_at, reverse=True): the sort is stable, records
\* with the same sent_at keep their order; t is the latest sent_at there can be
RECURSIVE SortBySentAtDescending(_, _)
SortBySentAtDescending(records, t) ==
    IF t < 0 THEN <<>>
    ELSE LET SentAtT(r) == r.sent_at = t
         IN  SelectSeq(records, SentAtT) \o SortBySentAtDescending(records, t - 1)

\* get_customer_history(customer_id, limit)
GetCustomerHistory(c, limit) ==
    LET InDeliveries(mid) == deliveries[mid] # None
        message_ids == SelectSeq(customer_history[c], InDeliveries)
        records == [i \in 1..Len(message_ids) |-> The(deliveries[message_ids[i]])]
        sorted == SortBySentAtDescending(records, trk_now)
    IN  SubSeq(sorted, 1, Min(limit, Len(sorted)))

\* should_fallback
ShouldFallback(c, channel) ==
    LET history == GetCustomerHistory(c, 5)
        OnChannel(r) == r.channel = channel
        channel_history == SelectSeq(history, OnChannel)
        last2 == SubSeq(channel_history, 1, 2)
        recent_failures ==
            Cardinality({i \in 1..Len(last2) : last2[i].status \in {"failed", "bounced"}})
    IN  IF Len(channel_history) < 2 THEN FALSE ELSE recent_failures >= 2

TrkIdle ==
    /\ trk_now = 0
    /\ deliveries = [m \in MessageIds |-> None]
    /\ customer_history = [c \in TrkCustomers |-> <<>>]
    /\ channel_stats = [ch \in TrkChannels |-> None]
    /\ update_result = None

\* the number of status events counted so far
StatusEvents ==
    LET Events(st) == IF st = None THEN 0
                      ELSE The(st).total_delivered + The(st).total_failed
                           + The(st).total_bounced + The(st).total_complained
    IN  Events(channel_stats["sms"]) + Events(channel_stats["email"])

\* datetime.utcnow() moves on to the next reading
TrkAdvance ==
    /\ trk_now < MaxStamp
    /\ trk_now' = trk_now + 1
    /\ update_result' = None
    /\ UNCHANGED <<deliveries, customer_history, channel_stats, notTrk>>

\* record_sent
TrackerRecordSent(message_id, customer_id, channel) ==
    LET record == [message_id |-> message_id, customer_id |-> customer_id,
                   channel |-> channel, status |-> "sent", sent_at |-> trk_now,
                   delivered_at |-> None, error_code |-> None]
    IN  /\ deliveries' = [deliveries EXCEPT ![message_id] = Some(record)]
        /\ customer_history' =
               [customer_history EXCEPT ![customer_id] = Append(@, message_id)]
        /\ channel_stats' = UpdateChannelStats(channel_stats, channel, "sent")
        /\ update_result' = None
        /\ UNCHANGED trk_now

RecordSent(message_id, customer_id, channel) ==
    /\ TrackerRecordSent(message_id, customer_id, channel)
    /\ UNCHANGED notTrk

\* update_status: returns the updated record, or None when there is none
UpdateStatusCounting(message_id, status, error_code) ==
    /\ deliveries[message_id] = None
    /\ channel_stats' = UpdateChannelStats(channel_stats, "sms", status)
    /\ update_result' = Some([message_id |-> message_id, record |-> None])
    /\ UNCHANGED <<deliveries, trk_now, customer_history, notTrk>>

TrackerUpdateStatus(message_id, status, error_code) ==
    /\ IF deliveries[message_id] = None
       THEN /\ UNCHANGED <<deliveries, channel_stats>>
            /\ update_result' = Some([message_id |-> message_id, record |-> None])
       ELSE LET record == The(deliveries[message_id])
                updated ==
                    CASE status = "delivered" ->
                             [record EXCEPT !.status = status, !.delivered_at = Some(trk_now)]
                      [] status \in {"failed", "bounced"} ->
                             [record EXCEPT !.status = status, !.error_code = error_code]
                      [] OTHER -> [record EXCEPT !.status = status]
            IN  /\ deliveries' = [deliveries EXCEPT ![message_id] = Some(updated)]
                /\ update_result' =
                       Some([message_id |-> message_id, record |-> Some(updated)])
                /\ channel_stats' =
                       IF status \in {"delivered", "failed", "bounced", "complained"}
                       THEN UpdateChannelStats(channel_stats, record.channel, status)
                       ELSE channel_stats
    /\ UNCHANGED <<trk_now, customer_history>>

UpdateStatus(message_id, status, error_code) ==
    /\ TrackerUpdateStatus(message_id, status, error_code)
    /\ UNCHANGED notTrk

\* the id of the next message: providers hand out a fresh id for each send
NextMessageId == Cardinality({m \in MessageIds : deliveries[m] # None}) + 1

\* Sends and status callbacks of one customer; a failure carries an error code.
FallbackNext ==
    \/ TrkAdvance
    \/ \E c \in TrkCustomers, ch \in TrkChannels :
           /\ NextMessageId \in MessageIds
           /\ RecordSent(NextMessageId, c, ch)
    \/ \E m \in MessageIds, status \in {"delivered", "failed", "bounced"} :
           /\ StatusEvents < MaxUpdates
           /\ deliveries[m] # None
           /\ UpdateStatus(m, status,
                           IF status = "delivered" THEN None ELSE Some("UNREACHABLE"))

-----------------------------------------------------------------------------
\* BaseSafetyGuardrail

MessageType == {"promotional", "transactional", "support"}
Sentiments == {"negative", "neutral", "positive"}

\* _analyze_message_content: promotional by type or by a promotional keyword in the text
AnalyzeMessageContent(message_type, has_promotional_keyword) ==
    [is_promotional |-> (message_type = "promotional" \/ has_promotional_keyword),
     message_type |-> message_type]

\* if sentiment_analysis['negative_interactions'] > 1 and not blocked_reasons
MediumRiskWhateverBlocked(sentiment_analysis, blocked_reasons) ==
    sentiment_analysis.negative_interactions > 1

MediumRisk(sentiment_analysis, blocked_reasons) ==
    sentiment_analysis.negative_interactions > 1 /\ blocked_reasons = <<>>

\* hours_since < 2, for a last interaction minutes_since minutes ago
VeryRecent(minutes_since) == minutes_since < 2 * 60

\* _assess_risk; confidence in hundredths. recent_interactions is None for an empty
\* list, else Some(timestamp of the first interaction), itself None or Some(minutes ago)
AssessRisk(sentiment_analysis, has_support_issues, message_analysis, recent_interactions) ==
    LET negative == sentiment_analysis.overall_sentiment = "negative"
        promo == message_analysis.is_promotional
        r0 == [blocked_reasons |-> <<>>, alternative_actions |-> <<>>,
               risk_level |-> "low", approved |-> TRUE, confidence |-> 80]
        r1 == IF negative /\ promo
              THEN [blocked_reasons |-> Append(r0.blocked_reasons,
                        "Customer has recent negative sentiment - promotional messages blocked"),
                    alternative_actions |-> r0.alternative_actions \o
                        <<"Wait 24-48 hours before sending promotional content",
                          "Send supportive or helpful content instead">>,
                    risk_level |-> "high", approved |-> FALSE, confidence |-> 90]
              ELSE r0
        r2 == IF has_support_issues /\ promo
              THEN [blocked_reasons |-> Append(r1.blocked_reasons,
                        "Customer has unresolved support issues - promotional messages blocked"),
                    alternative_actions |-> r1.alternative_actions \o
                        <<"Resolve support issues before sending promotional content",
                          "Send support follow-up message instead">>,
                    risk_level |-> "high", approved |-> FALSE, confidence |-> 95]
              ELSE r1
        r3 == IF MediumRisk(sentiment_analysis, r2.blocked_reasons)
              THEN [blocked_reasons |-> Append(r2.blocked_reasons,
                        "Multiple recent negative interactions detected"),
                    alternative_actions |-> r2.alternative_actions \o
                        <<"Consider personalized outreach or customer service contact">> \o
                        (IF promo
                         THEN <<"Send non-promotional content or wait for sentiment improvement">>
                         ELSE <<>>),
                    risk_level |-> "medium",
                    approved |-> (IF promo THEN FALSE ELSE r2.approved),
                    confidence |-> 70]
              ELSE r2
        r4 == IF /\ recent_interactions # None
                 /\ The(recent_interactions) # None
                 /\ VeryRecent(The(The(recent_interactions)))
                 /\ negative
              THEN [blocked_reasons |-> Append(r3.blocked_reasons,
                        "Very recent negative interaction - cooling off period recommended"),
                    alternative_actions |-> Append(r3.alternative_actions,
                        "Wait at least 24 hours before contacting customer"),
                    risk_level |-> "high", approved |-> FALSE, confidence |-> 85]
              ELSE r3
    IN  IF r4.approved /\ r4.blocked_reasons = <<>>
        THEN [r4 EXCEPT !.alternative_actions =
                 @ \o <<"Message approved - proceed with sending">> \o
                 (IF promo
                  THEN <<"Consider personalizing the offer based on customer preferences">>
                  ELSE <<>>)]
        ELSE r4

\* The results of analyze_customer_sentiment: an overall sentiment is negative only
\* when some interaction was negative.
SentimentAnalyses ==
    {s \in [overall_sentiment : Sentiments, negative_interactions : 0..MaxNegative] :
        s.overall_sentiment = "negative" => s.negative_interactions >= 1}

\* request.recent_interactions: none, a first one without timestamp, or one stamped
\* just now, just under and exactly two hours ago
RecentInteractions == {None, Some(None)} \cup {Some(Some(m)) : m \in {0, 2 * 60 - 1, 2 * 60}}

GrdIdle ==
    /\ request = [sentiment_analysis |-> [overall_sentiment |-> "neutral", negative_interactions |-> 0],
                  has_support_issues |-> FALSE, message_type |-> "transactional",
                  has_promotional_keyword |-> FALSE, recent_interactions |-> None]
    /\ safety = None

GrdInit ==
    /\ request \in [sentiment_analysis : SentimentAnalyses, has_support_issues : BOOLEAN,
                    message_type : MessageType, has_promotional_keyword : BOOLEAN,
                    recent_interactions : RecentInteractions]
    /\ safety = None

\* check_safety: the GuardrailResult built from the risk assessment
CheckSafety ==
    /\ safety = None
    /\ safety' = Some(AssessRisk(request.sentiment_analysis, request.has_support_issues,
                          AnalyzeMessageContent(request.message_type,
                                                request.has_promotional_keyword),
                          request.recent_interactions))
    /\ UNCHANGED <<request, notGrd>>

GrdNext == CheckSafety

-----------------------------------------------------------------------------
\* Segments of the demo query interface. A string is a sequence of characters.

Upper(ch) ==
    CASE ch = "a" -> "A" [] ch = "b" -> "B" [] ch = "e" -> "E" [] ch = "i" -> "I"
      [] ch = "k" -> "K" [] ch = "l" -> "L" [] ch = "n" -> "N" [] ch = "o" -> "O"
      [] ch = "p" -> "P" [] ch = "t" -> "T" [] ch = "s" -> "S" [] ch = "m" -> "M"
      [] ch = "w" -> "W" [] ch = "h" -> "H" [] OTHER -> ch

\* s.upper()
ToUpper(s) == [i \in 1..Len(s) |-> Upper(s[i])]

\* s[:n]
Prefix(s, n) == SubSeq(s, 1, Min(n, Len(s)))

\* s.split('-')
RECURSIVE Split(_)
Split(s) ==
    IF \A i \in 1..Len(s) : s[i] # "-" THEN <<s>>
    ELSE LET k == CHOOSE i \in 1..Len(s) : s[i] = "-" /\ \A j \in 1..(i - 1) : s[j] # "-"
         IN  <<SubSeq(s, 1, k - 1)>> \o Split(SubSeq(s, k + 1, Len(s)))

\* s.replace('-', '')
WithoutDashes(s) == LET NotDash(ch) == ch # "-" IN SelectSeq(s, NotDash)

Locations == {<<"B", "a", "n", "g", "a", "l", "o", "r", "e">>, <<"B", "a", "n", "g", "k", "o", "k">>}
Skus == {<<"S", "K", "U", "-", "L", "A", "P", "T", "O", "P", "-", "0", "0", "1">>,
         <<"L", "A", "P", "-", "1">>}

\* additional_filters: None, or a dict given as its set of <<key, value>> items
FilterMaps == {None, Some({}), Some({<<"tier", "gold">>}), Some({<<"tier", "silver">>})}

\* criteria_hash: the digest of  location|sku|json.dumps(additional_filters or {}, sort_keys=True);
\* distinct criteria have distinct digests
CriteriaHash(location, sku, additional_filters) ==
    <<location, sku, IF additional_filters = None THEN {} ELSE The(additional_filters)>>

\* _generate_segment_id: SEG-{location_code}-{sku_code}-{timestamp}-{hash}, the hash
\* being the first digits of the digest of location, sku, timestamp, eligible_count;
\* distinct hash inputs have distinct hashes
GenerateSegmentId(location, sku, eligible_count, now) ==
    LET location_code == ToUpper(Prefix(location, 3))
        sku_parts == Split(sku)
        sku_code == IF Len(sku_parts) >= 3
                    THEN ToUpper(Prefix(sku_parts[2], 3)) \o sku_parts[3]
                    ELSE ToUpper(Prefix(WithoutDashes(sku), 6))
        timestamp == now
        hash_value == <<location, sku, timestamp, eligible_count>>
    IN  <<"SEG", location_code, sku_code, timestamp, hash_value>>

SegIdle ==
    /\ seg_now = 0
    /\ segments = {}
    /\ seg_last = None

\* the stored segment id of a criteria hash
SegmentOf(segs, h) == (CHOOSE e \in segs : e[1] = h)[2]

\* datetime.now() moves on to the next second
SegAdvance ==
    /\ seg_now < MaxSegSeconds
    /\ seg_now' = seg_now + 1
    /\ seg_last' = None
    /\ UNCHANGED <<segments, notSeg>>

\* _get_or_create_segment_id, returning (segment_id, is_reused)
GetOrCreateSegmentId(location, sku, eligible_count, additional_filters) ==
    LET criteria_hash == CriteriaHash(location, sku, additional_filters)
        known == \E e \in segments : e[1] = criteria_hash
        segment_id == IF known THEN SegmentOf(segments, criteria_hash)
                      ELSE GenerateSegmentId(location, sku, eligible_count, seg_now)
    IN  /\ segments' = IF known THEN segments
                       ELSE segments \cup {<<criteria_hash, segment_id>>}
        /\ seg_last' = Some([location |-> location, sku |-> sku,
                             additional_filters |-> additional_filters,
                             before |-> segments,
                             segment_id |-> segment_id, is_reused |-> known])
        /\ UNCHANGED <<seg_now, notSeg>>

\* run_campaign_query asks for a segment when there are eligible users; their number
\* follows from location and sku, here one more for the longer location name
EligibleCount(location, sku) == IF Len(location) > 7 THEN 2 ELSE 1

SegNext ==
    \/ SegAdvance
    \/ \E location \in Locations, sku \in Skus, additional_filters \in FilterMaps :
           /\ Cardinality(segments) < MaxSegments
           /\ GetOrCreateSegmentId(location, sku, EligibleCount(location, sku),
                                   additional_filters)

AwsIdle ==
    /\ frequency_table = [c \in Customers |-> None]
    /\ aws_last = None

\* the components added to the model later, unused
AgtIdle ==
    /\ decisions_history = <<>>
    /\ decision_log = <<>>
    /\ recent_decisions = None

SendChannels == <<"sms", "whatsapp", "email">>

WebIdle ==
    /\ is_production = FALSE
    /\ web_request = None
    /\ web_response = None
    /\ users_by_channel = [ch \in {"sms", "whatsapp", "email"} |-> <<>>]
    /\ rate_limiters = None
    /\ cpc = "idle"
    /\ cursor = [channel |-> 1, i |-> 0]
    /\ can_send = [ok |-> FALSE, retry_after |-> None]
    /\ web_now = 0
    /\ dispatched = <<>>
    /\ web_recorded = <<>>

MsgIdle ==
    /\ client = [dry_run |-> TRUE, phone_pool_id |-> None,
                 whatsapp_business_account_id |-> None]
    /\ msg_request = None
    /\ msg_response = None
    /\ api_calls = <<>>
    /\ num_customers = 0
    /\ ex_pc = "idle"
    /\ ex_i = 0

MetIdle ==
    /\ results = [eligible_users |-> <<>>, whatsapp_routing |-> <<>>, time_optimized |-> <<>>]
    /\ after_metrics = None

PeerIdle == peer_frequency_tracking = [c \in Customers |-> None]

GrantIdle == granted_at = [t \in 0..MaxClock |-> 0]

GateIdle == blocked_at = None

SigIdle ==
    /\ signals_table = [c \in Customers |-> <<>>]
    /\ pending_saves = <<>>
    /\ signals_recorded = [c \in Customers |-> <<>>]

LateIdle == MetIdle /\ PeerIdle /\ GrantIdle /\ GateIdle /\ SigIdle

MoreIdle == AgtIdle /\ WebIdle /\ MsgIdle /\ LateIdle

ExtIdle == AwsIdle /\ MoreIdle

\* the components other than the rate limiters, unused
RestIdle == FatIdle /\ TrkIdle /\ GrdIdle /\ SegIdle /\ ExtIdle

Init == LimInit /\ WaitIdle /\ DistIdle /\ RestIdle
Next == LimNext
Spec == Init /\ [][Next]_vars

\* The caller of wait_for_capacity keeps running: no step of it is postponed forever.
SpecWait == Init /\ [][WaitNext]_vars /\ WF_vars(WaitStep)

InitDist == LimInit /\ WaitIdle /\ DistInit /\ RestIdle
SpecDist == InitDist /\ [][DistNext]_vars

InitFatigue == LimIdle /\ WaitIdle /\ DistIdle /\ FatInit /\ TrkIdle /\ GrdIdle /\ SegIdle /\ ExtIdle
SpecFatigue == InitFatigue /\ [][FatNext]_vars

InitIdle == LimIdle /\ WaitIdle /\ DistIdle /\ RestIdle
SpecFallback == InitIdle /\ [][FallbackNext]_vars

InitGuardrail == LimIdle /\ WaitIdle /\ DistIdle /\ FatIdle /\ TrkIdle /\ GrdInit /\ SegIdle /\ ExtIdle
SpecGuardrail == InitGuardrail /\ [][GrdNext]_vars

SpecSegment == InitIdle /\ [][SegNext]_vars

-----------------------------------------------------------------------------
\* C1: with burst capacity B and rate R, B consecutive acquire(1) calls with no
\* elapsed time all succeed, the (B+1)th fails reporting retry_after = 1/R seconds,
\* and after waiting that long the next acquire(1) succeeds.
C1_BurstThenRetry ==
    /\ (scenario.phase = "burst" /\ scenario.k >= 1) => acquired.ok
    /\ scenario.phase = "limited" =>
          /\ ~acquired.ok
          /\ acquired.retry_after # None
          /\ The(acquired.retry_after) * config.max_requests_per_second = TicksPerSecond
    /\ scenario.phase = "retried" => acquired.ok

C1_Witness == scenario.phase = "retried" /\ scenario.k = config.burst_capacity + 1

\* C7: each acquire(n) first refills the tokens by elapsed * rate capped at burst
\* capacity, then succeeds and subtracts n exactly when tokens >= n; otherwise it
\* fails, deducts nothing and reports retry_after = (n - tokens) / rate.
C7_AcquireStep ==
    LET n == acquired'.n
        refilled == Min(config.burst_capacity * TicksPerSecond,
                        tokens + (clock - last_refill) * config.max_requests_per_second)
    IN  (last_call' = "acquire" /\ clock' = clock) =>
            /\ last_refill' = clock
            /\ IF refilled >= n * TicksPerSecond
               THEN /\ acquired'.ok
                    /\ acquired'.retry_after = None
                    /\ tokens' = refilled - n * TicksPerSecond
               ELSE /\ ~acquired'.ok
                    /\ tokens' = refilled
                    /\ acquired'.retry_after # None
                    /\ The(acquired'.retry_after) * config.max_requests_per_second
                          = n * TicksPerSecond - refilled

C7_AcquireSemantics == [][C7_AcquireStep]_vars

\* a failed acquire(2) that found a refilled but insufficient, non-zero token count
C7_Witness ==
    /\ last_call = "acquire" /\ acquired.n = 2 /\ ~acquired.ok
    /\ tokens > 0 /\ last_refill > 0
    /\ tokens < max_tokens

\* C10: get_available_tokens consumes nothing: it leaves the stored token count and
\* the last-refill time unchanged (so later acquire calls see the state they would
\* have seen without the query).
C10_QueryFrame ==
    [][last_call' = "get_available_tokens" => (tokens' = tokens /\ last_refill' = last_refill)]_vars

\* a query answered while a refill was pending (the reported count exceeds the stored one)
C10_Witness ==
    /\ last_call = "get_available_tokens"
    /\ available # None
    /\ The(available) * TicksPerSecond > tokens

\* C8: wait_for_capacity always terminates: it returns true as soon as a poll of
\* can_send succeeds, and otherwise returns false once the maximum wait has
\* elapsed, never sleeping past the remaining wait budget.
C8_Safety ==
    /\ wpc \in {"check", "sleep"} => ~acquired.ok
    /\ wpc = "sleep" =>
          /\ wait.wait_time >= 1
          /\ wait.elapsed + wait.wait_time <= wait.max_wait
    /\ wpc = "done" =>
          /\ wait.result \in {Some(TRUE), Some(FALSE)}
          /\ wait.result = Some(TRUE) => (acquired.ok /\ acquired.n = wait.count)
          /\ wait.result = Some(FALSE) =>
                (~acquired.ok /\ clock - wait.start_time >= wait.max_wait)

C8_WaitTerminates == []C8_Safety /\ ((wpc # "idle") ~> (wpc = "done"))

\* a wait that slept and then timed out
C8_Witness == wpc = "done" /\ wait.result = Some(FALSE) /\ wait.wait_time >= 1

\* C2: the store-backed acquire has the token-bucket semantics of the in-memory
\* limiter (refill by elapsed * rate capped at burst capacity, then succeed and
\* deduct n only if at least n tokens are available), also when several callers
\* acquire concurrently against the same record: applied to the stored record
\* (a fresh full bucket on first use), RateLimiter.acquire gives the same answer
\* and the same new record.
C2_DistSameAsInMemory ==
    dist_last.outcome \in {"updated", "condition_failed"} =>
        LET lim == IF dist_last.before = None
                   THEN [tokens |-> max_tokens, last_refill |-> dist_last.now]
                   ELSE The(dist_last.before)
            e == AcquireOn(lim, dist_last.now, dist_last.n, refill_rate, max_tokens)
        IN  /\ dist_last.ok = e.ok
            /\ dist_last.retry_after = e.retry_after
            /\ item = Some([tokens |-> e.tokens, last_refill |-> e.last_refill])

\* C9: when the store raises an error other than the failed condition, acquire
\* reports success (fails open) and does not raise.
C9_FailOpen ==
    dist_last.outcome = "error" =>
        (dist_last.ok /\ dist_last.retry_after = None /\ ~dist_last.raised)

\* a transient store error on a bucket whose stored tokens do not cover the request
C9_Witness ==
    /\ dist_last.outcome = "error"
    /\ item # None
    /\ The(item).tokens < dist_last.n * TicksPerSecond

Contains(seq, x) == \E i \in 1..Len(seq) : seq[i] = x

\* the last k tracked sends of the customer lie within one day
LastSendsWithinOneDay(c, k) ==
    /\ Len(tracked[c]) >= k
    /\ tracked[c][Len(tracked[c])] - tracked[c][Len(tracked[c]) - k + 1] < Day

\* C3: once 3 sends have been tracked for a customer within one day (on any mix
\* of channels), check_fatigue blocks the next message with a reason containing
\* "Daily limit reached" and a recommended delay greater than 0; after only 2
\* tracked sends (and nothing else recorded for the customer) it allows the message.
C3_DailyThreshold ==
    fatigue_result # None =>
        LET r == The(fatigue_result)
            c == r.customer_id
        IN  /\ LastSendsWithinOneDay(c, 3) =>
                  /\ ~r.allow_message
                  /\ Contains(r.protection_reason, "Daily limit reached")
                  /\ r.recommended_delay > 0
            /\ (Len(tracked[c]) = 2 /\ disengagement_signals[c] = <<>>) => r.allow_message

\* a check made in the last minute of a day, after exactly 3 sends of one day on
\* two channels
C3_Witness ==
    /\ fatigue_result # None
    /\ LET c == The(fatigue_result).customer_id
       IN  /\ Len(tracked[c]) = 3
           /\ LastSendsWithinOneDay(c, 3)
           /\ \E ch1, ch2 \in ChannelType :
                 /\ ch1 # ch2
                 /\ The(frequency_tracking[c]).channel_breakdown[ch1] > 0
                 /\ The(frequency_tracking[c]).channel_breakdown[ch2] > 0
           /\ DelayUntilNextDay(utcnow) = 0

\* the recorded delivery attempts of customer c on channel ch
Attempts(c, ch) ==
    {m \in MessageIds : /\ deliveries[m] # None
                        /\ The(deliveries[m]).customer_id = c
                        /\ The(deliveries[m]).channel = ch}

\* two attempts of c on ch, both failed or bounced, were sent after every other
\* attempt of c on ch
TwoMostRecentFailed(c, ch) ==
    \E a, b \in Attempts(c, ch) :
        /\ a # b
        /\ The(deliveries[a]).status \in {"failed", "bounced"}
        /\ The(deliveries[b]).status \in {"failed", "bounced"}
        /\ \A o \in Attempts(c, ch) \ {a, b} :
               /\ The(deliveries[o]).sent_at < The(deliveries[a]).sent_at
               /\ The(deliveries[o]).sent_at < The(deliveries[b]).sent_at

\* C4: whatever was recorded on other channels, should_fallback(customer, C) is true
\* when the customer's two most recent attempts on C both failed or bounced, and
\* false when the customer has fewer than 2 recorded attempts on C.
C4_FallbackOnChannel ==
    \A c \in TrkCustomers, ch \in TrkChannels :
        /\ TwoMostRecentFailed(c, ch) => ShouldFallback(c, ch)
        /\ Cardinality(Attempts(c, ch)) < 2 => ~ShouldFallback(c, ch)

\* C5: when the overall sentiment is negative and the proposed message is of type
\* promotional, the guardrail result is not approved, has risk level high, and has
\* at least one blocked reason and one alternative action, whichever other rules
\* (support issues, several negative interactions, a very recent interaction) match.
C5_NegativePromotionalBlocked ==
    (/\ safety # None
     /\ request.sentiment_analysis.overall_sentiment = "negative"
     /\ request.message_type = "promotional")
    => /\ ~The(safety).approved
       /\ The(safety).risk_level = "high"
       /\ The(safety).blocked_reasons # <<>>
       /\ The(safety).alternative_actions # <<>>

\* a negative, promotional request of a customer with several negative interactions
\* and open support issues, checked
C5_Witness ==
    /\ safety # None
    /\ request.sentiment_analysis.overall_sentiment = "negative"
    /\ request.sentiment_analysis.negative_interactions > 1
    /\ request.has_support_issues
    /\ request.message_type = "promotional"
    /\ Len(The(safety).blocked_reasons) = 2

\* C6: a request whose (location, SKU, filters) criteria were seen before returns the
\* stored segment id, marked reused; a request with new criteria (for one, the same
\* location and SKU with a different filter map) returns an id, not marked reused,
\* that differs from the id of every segment created before.
C6_SegmentIds ==
    seg_last # None =>
        LET r == The(seg_last)
            h == CriteriaHash(r.location, r.sku, r.additional_filters)
            seen == \E e \in r.before : e[1] = h
        IN  /\ seen => (r.is_reused /\ r.segment_id = SegmentOf(r.before, h))
            /\ ~seen => (/\ ~r.is_reused
                         /\ \A e \in r.before : e[2] # r.segment_id)

-----------------------------------------------------------------------------
\* Sends tracked over a longer horizon: two instants of the first day, then noon of
\* the day after and noon a week and a month after the first noon.
TrackTimes ==
    {Day \div 2, Day - Minute \div 2, Day + Day \div 2,
     disengagement_window_days * Day + Day \div 2, 30 * Day + Day \div 2}

InitTrack ==
    /\ LimIdle /\ WaitIdle /\ DistIdle /\ TrkIdle /\ GrdIdle /\ SegIdle /\ ExtIdle
    /\ utcnow \in TrackTimes
    /\ frequency_tracking = [c \in Customers |-> None]
    /\ disengagement_signals = [c \in Customers |-> <<>>]
    /\ fatigue_result = None
    /\ tracked = [c \in Customers |-> <<>>]

TrackNext ==
    \/ \E t \in TrackTimes : FatAdvance(t)
    \/ \E c \in Customers, channel \in ChannelType : TrackCommunicationFrequency(c, channel)

SpecTrack == InitTrack /\ [][TrackNext]_vars

\* the counters of customer c, zero before the first tracked send
CountersOf(ft, c) == IF ft[c] = None THEN NewFrequency ELSE The(ft[c])

\* a counter after a send: back to 0 first when its window of days has elapsed
\* since the customer's last tracked send
CountedAfter(count, c, days) ==
    LET n == Len(tracked[c])
    IN  (IF n > 0 /\ utcnow - tracked[c][n] >= days * Day THEN 0 ELSE count) + 1

C11_TrackStep ==
    \A c \in Customers :
        tracked'[c] # tracked[c] =>
            LET old == CountersOf(frequency_tracking, c)
                new == CountersOf(frequency_tracking', c)
            IN  /\ new.daily_count = CountedAfter(old.daily_count, c, 1)
                /\ new.weekly_count = CountedAfter(old.weekly_count, c, 7)
                /\ new.monthly_count = CountedAfter(old.monthly_count, c, 30)
                /\ \E used \in ChannelType :
                       \A ch \in ChannelType :
                           new.channel_breakdown[ch] =
                               old.channel_breakdown[ch] + (IF ch = used THEN 1 ELSE 0)

\* C11: each tracked send first resets each of the customer's daily, weekly and
\* monthly counters whose window of 1, 7 and 30 days has elapsed since the
\* customer's last tracked send, then adds 1 to all three counters and 1 to the
\* breakdown count of the channel used, whichever channel that is.
C11_TrackCounts == [][C11_TrackStep]_vars

\* sends on both channels, the last one a month after the one before: all three
\* counters restarted while the breakdown kept counting
C11_Witness ==
    \E c \in Customers :
        /\ Len(tracked[c]) >= 3
        /\ tracked[c][Len(tracked[c])] - tracked[c][Len(tracked[c]) - 1] >= 30 * Day
        /\ The(frequency_tracking[c]).monthly_count = 1
        /\ \A ch \in ChannelType : The(frequency_tracking[c]).channel_breakdown[ch] >= 1

-----------------------------------------------------------------------------
\* Sends, signals and checks over the longer horizon. The severities recorded are
\* 0.7, which is not above the strong-signal limit, and 0.8, which is.
SignalSeverities == {StrongSeverity, (8 * ScoreUnit) \div 10}

SignalNext ==
    \/ \E t \in TrackTimes : FatAdvance(t)
    \/ \E c \in Customers, channel \in ChannelType : TrackCommunicationFrequency(c, channel)
    \/ \E c \in Customers, severity \in SignalSeverities :
           RecordDisengagementSignal(c, "complaint", severity)
    \/ \E c \in Customers : CheckFatigueRequest(c)

SpecSignal == InitTrack /\ [][SignalNext]_vars

\* a signal of severity above 0.7 was recorded for c at most 7 days ago
StrongSignalInWindow(c) ==
    \E i \in 1..Len(disengagement_signals[c]) :
        /\ 10 * disengagement_signals[c][i].severity > 7 * ScoreUnit
        /\ utcnow - disengagement_signals[c][i].timestamp <= 7 * Day

\* C12: if a disengagement signal of severity above 0.7 was recorded for the
\* customer within the 7 days before the check, check_fatigue blocks the message
\* with a recommended delay of at least 2880 minutes, whatever the customer's
\* frequency counters are.
C12_StrongSignalBlocks ==
    (fatigue_result # None /\ StrongSignalInWindow(The(fatigue_result).customer_id))
    => /\ ~The(fatigue_result).allow_message
       /\ The(fatigue_result).recommended_delay >= 2880

\* a check of a customer with no tracked send, whose strong signal is exactly 7 days old
C12_Witness ==
    /\ fatigue_result # None
    /\ LET c == The(fatigue_result).customer_id
       IN  /\ StrongSignalInWindow(c)
           /\ tracked[c] = <<>>
           /\ \A i \in 1..Len(disengagement_signals[c]) :
                  utcnow - disengagement_signals[c][i].timestamp = 7 * Day

-----------------------------------------------------------------------------
\* check_fatigue on the records that tracking can leave: counters with
\* daily <= weekly <= monthly, the daily one at least 1 once anything was tracked,
\* and the score that was computed for them.
TrackedFrequencies ==
    {[daily_count |-> d, weekly_count |-> w, monthly_count |-> m,
      last_message_time |-> Some(0),
      channel_breakdown |-> [ch \in ChannelType |-> IF ch = "sms" THEN m ELSE 0],
      fatigue_score |-> CalculateFatigueScore([daily_count |-> d, weekly_count |-> w,
                                               monthly_count |-> m])] :
        d \in 1..MaxDailyCount, w \in 1..MaxWeeklyCount, m \in 1..MaxMonthlyCount}

\* noon and the last minute of each day of a week
WeekTimes ==
    {d * Day + Day \div 2 : d \in 0..6} \cup {d * Day + Day - Minute \div 2 : d \in 0..6}

InitCheck ==
    /\ LimIdle /\ WaitIdle /\ DistIdle /\ TrkIdle /\ GrdIdle /\ SegIdle /\ ExtIdle
    /\ utcnow \in WeekTimes
    /\ \E f \in {None} \cup {Some(r) : r \in TrackedFrequencies} :
           /\ f # None => (The(f).daily_count <= The(f).weekly_count
                           /\ The(f).weekly_count <= The(f).monthly_count)
           /\ frequency_tracking = [c \in Customers |-> f]
    /\ \E sigs \in {<<>>} \cup {<<[signal_type |-> "complaint", timestamp |-> utcnow,
                                    severity |-> v]>> : v \in SignalSeverities} :
           disengagement_signals = [c \in Customers |-> sigs]
    /\ fatigue_result = None
    /\ tracked = [c \in Customers |-> <<>>]

CheckNext == \E c \in Customers : fatigue_result = None /\ CheckFatigueRequest(c)

SpecCheck == InitCheck /\ [][CheckNext]_vars

\* C13: whenever check_fatigue returns allow_message = false, the result carries
\* at least one protection reason, at least one alternative action and a
\* recommended delay greater than 0 minutes.
C13_BlockedIsExplained ==
    (fatigue_result # None /\ ~The(fatigue_result).allow_message)
    => /\ The(fatigue_result).protection_reason # <<>>
       /\ The(fatigue_result).alternative_actions # <<>>
       /\ The(fatigue_result).recommended_delay > 0

\* a message blocked in the last minute of a Sunday, when the minutes until the
\* next day and until the next week both truncate to 0
C13_Witness ==
    /\ fatigue_result # None
    /\ ~The(fatigue_result).allow_message
    /\ DelayUntilNextDay(utcnow) = 0
    /\ DelayUntilNextWeek(utcnow) = 0
    /\ \A c \in Customers : disengagement_signals[c] = <<>>

-----------------------------------------------------------------------------
\* AWSNativeFatigueProtection with use_aws set: the base engine with its frequency
\* records persisted to the managed store. No disengagement signal is recorded here.

notAws == <<limVars, waitVars, distVars, trkVars, grdVars, segVars, moreVars>>

\* _save_frequency_to_dynamodb / _load_frequency_from_dynamodb: the item holds the
\* counters, score, last message time and channel breakdown, and parses back to them
FrequencyItem(f) == f

\* _load_frequency_from_dynamodb: the parsed item, a new record when there is no
\* item, and a new record as well when get_item raises
LoadFrequencyFromDynamoDB(c, get_item_raises) ==
    IF get_item_raises THEN NewFrequency
    ELSE IF frequency_table[c] = None THEN NewFrequency
    ELSE The(frequency_table[c])

\* track_communication_frequency: the in-memory tracking of the base engine, then
\* put_item, whose failure is logged and leaves the in-memory record in place
AwsTrackCommunicationFrequency(c, channel, put_item_raises) ==
    /\ TotalTracked < MaxTracked
    /\ LET f == IF frequency_tracking[c] = None THEN NewFrequency
                ELSE The(frequency_tracking[c])
           tracked_f == TrackFrequency(f, channel, utcnow)
       IN  /\ frequency_tracking' = [frequency_tracking EXCEPT ![c] = Some(tracked_f)]
           /\ frequency_table' =
                  IF put_item_raises THEN frequency_table
                  ELSE [frequency_table EXCEPT ![c] = Some(FrequencyItem(tracked_f))]
    /\ tracked' = [tracked EXCEPT ![c] = Append(@, utcnow)]
    /\ fatigue_result' = None
    /\ aws_last' = None
    /\ UNCHANGED <<utcnow, disengagement_signals, notAws>>

\* check_fatigue: the loaded record replaces the in-memory one, then the base check
\* runs (its detect_disengagement_signals replaces the in-memory signals by the
\* stored ones, of which there are none)
AwsCheckFatigue(c, get_item_raises) ==
    /\ UNCHANGED <<utcnow, tracked, frequency_table, notAws>>
    /\ frequency_tracking' =
           [frequency_tracking EXCEPT ![c] = Some(LoadFrequencyFromDynamoDB(c, get_item_raises))]
    /\ disengagement_signals' = [disengagement_signals EXCEPT ![c] = <<>>]
    /\ fatigue_result' = Some(CheckFatigue(c, utcnow))'
    /\ aws_last' = Some([customer_id |-> c, store_failed |-> get_item_raises,
                         held |-> frequency_tracking[c],
                         held_decision |-> CheckFatigue(c, utcnow)])

\* datetime.utcnow() moves on
AwsAdvance(t) ==
    /\ t > utcnow
    /\ utcnow' = t
    /\ fatigue_result' = None
    /\ aws_last' = None
    /\ UNCHANGED <<frequency_tracking, disengagement_signals, tracked, frequency_table, notAws>>

InitAws ==
    /\ LimIdle /\ WaitIdle /\ DistIdle /\ TrkIdle /\ GrdIdle /\ SegIdle /\ ExtIdle
    /\ FatInit

AwsNext ==
    \/ \E t \in TimePoints : AwsAdvance(t)
    \/ \E c \in Customers, channel \in ChannelType, put_item_raises \in BOOLEAN :
           AwsTrackCommunicationFrequency(c, channel, put_item_raises)
    \/ \E c \in Customers, get_item_raises \in BOOLEAN : AwsCheckFatigue(c, get_item_raises)

SpecAws == InitAws /\ [][AwsNext]_vars

\* C14: when the store fails during a store-backed check, the decision is the one
\* the in-memory frequency state held for the customer gives, and that state (the
\* counts tracked earlier in the process) is still held afterwards.
C14_StoreFailureKeepsMemory ==
    (aws_last # None /\ The(aws_last).store_failed /\ The(aws_last).held # None)
    => /\ frequency_tracking[The(aws_last).customer_id] = The(aws_last).held
       /\ The(fatigue_result).allow_message = The(aws_last).held_decision.allow_message

-----------------------------------------------------------------------------
\* The tracker used with any message ids: an id can be recorded again, and a status
\* can arrive for an id that was never recorded.
TrackerIds == 1..MaxTrackerIds

TrackerNext ==
    \/ \E m \in TrackerIds, c \in TrkCustomers, ch \in TrkChannels :
           /\ Len(customer_history[c]) < MaxTrackerIds
           /\ RecordSent(m, c, ch)
    \/ \E m \in TrackerIds, status \in {"delivered", "failed", "unsubscribed"} :
           /\ deliveries[m] # None => The(deliveries[m]).status = "sent"
           /\ UpdateStatus(m, status, IF status = "failed" THEN Some("UNREACHABLE") ELSE None)

SpecTracker == InitIdle /\ [][TrackerNext]_vars

\* an update_status call for message id m returns in this step
UpdateReturns(m) ==
    /\ update_result' # None
    /\ The(update_result').message_id = m
    /\ (update_result' # update_result \/ UNCHANGED vars)

C15_UnknownUpdateStep ==
    \A m \in MessageIds :
        (deliveries[m] = None /\ UpdateReturns(m))
        => /\ The(update_result').record = None
           /\ UNCHANGED <<deliveries, customer_history, channel_stats>>

\* C15: update_status for a message id that has no delivery record returns no
\* record and leaves every delivery record, every customer history list and every
\* channel counter unchanged.
C15_UnknownUpdateNoOp == [][C15_UnknownUpdateStep]_vars

\* the update for an unknown id arrived while other messages were recorded and counted
C15_Witness ==
    /\ update_result # None
    /\ The(update_result).record = None
    /\ \E m \in MessageIds : deliveries[m] # None /\ The(deliveries[m]).status = "failed"
    /\ \E c \in TrkCustomers : Len(customer_history[c]) >= 2

-----------------------------------------------------------------------------
\* agents/base.py: the decision history of one agent.
notAgt == <<limVars, waitVars, distVars, fatVars, trkVars, grdVars, segVars, awsVars, webVars,
           msgVars, lateVars>>

HistoryLimit == 100

\* Python's sequence[-n:]: the last n elements, the whole sequence when n = 0 or
\* when n exceeds its length
LastSlice(sequence, n) ==
    IF n = 0 \/ n >= Len(sequence)
    THEN sequence
    ELSE SubSeq(sequence, Len(sequence) - n + 1, Len(sequence))

TruncateOldestKept(history) ==
    IF Len(history) > HistoryLimit THEN SubSeq(history, 1, HistoryLimit) ELSE history

\* if len(self.decisions_history) > 100: self.decisions_history = self.decisions_history[-100:]
Truncate(history) ==
    IF Len(history) > HistoryLimit THEN LastSlice(history, HistoryLimit) ELSE history

\* an AgentDecision, told apart by its decision_id
Decision(n) == [decision_id |-> n]

\* _record_decision
RecordDecision(decision) ==
    /\ decisions_history' = Truncate(Append(decisions_history, decision))
    /\ decision_log' = Append(decision_log, decision)
    /\ recent_decisions' = None
    /\ UNCHANGED notAgt

\* get_recent_decisions
GetRecentDecisions(limit) ==
    /\ recent_decisions' =
           Some(IF decisions_history # <<>> THEN LastSlice(decisions_history, limit) ELSE <<>>)
    /\ UNCHANGED <<decisions_history, decision_log, notAgt>>

RecentLimits == {1, 10}

AgentNext ==
    \/ /\ Len(decision_log) < MaxDecisions
       /\ RecordDecision(Decision(Len(decision_log) + 1))
    \/ \E limit \in RecentLimits :
           /\ recent_decisions = None
           /\ GetRecentDecisions(limit)

SpecAgent == InitIdle /\ [][AgentNext]_vars

\* C16: after any number of recorded decisions the history holds at most 100
\* entries, and they are the most recently recorded decisions in recording order.
C16_HistoryIsLastHundred ==
    /\ Len(decisions_history) <= HistoryLimit
    /\ LET n == Len(decision_log)
           k == IF n > HistoryLimit THEN HistoryLimit ELSE n
       IN  /\ Len(decisions_history) = k
           /\ \A i \in 1..k : decisions_history[i] = decision_log[n - k + i]

\* more than 100 decisions were recorded, so the oldest ones were dropped
C16_Witness ==
    /\ Len(decision_log) > HistoryLimit
    /\ Len(decisions_history) = HistoryLimit
    /\ decisions_history[1] # decision_log[1]

-----------------------------------------------------------------------------
\* web/app.py: POST /api/send-campaign and the three per-channel send loops.
notWeb == <<limVars, waitVars, distVars, fatVars, trkVars, grdVars, segVars, awsVars, agtVars,
           msgVars, lateVars>>

\* the values of a user's selected_channel: absent, or a string
SelectedChannels == <<None, Some("sms"), Some("whatsapp"), Some("email"), Some("voice")>>

\* the lists of eligible users of the model: n users, the channel of user i taken
\* from SelectedChannels starting at position start and moving on by step
UserList(n, start, step) ==
    [i \in 1..n |->
        [customer_id |-> i,
         selected_channel |->
            SelectedChannels[((start - 1 + step * (i - 1)) % Len(SelectedChannels)) + 1]]]

UserLists ==
    {UserList(n, start, step) : n \in 0..MaxUsers, start \in 1..Len(SelectedChannels), step \in {0, 1}}

Throughputs == Rates \cup {0, 101}

\* request.get_json(): nothing, or a body
Bodies == {None} \cup {Some(b) : b \in [eligible_users : UserLists, throughput_tps : Throughputs]}

DisabledNever(production) == FALSE

\* if not IS_PRODUCTION
Disabled(production) == ~production

\* user.get('selected_channel', 'sms').lower()
ChannelOfUser(user) ==
    IF user.selected_channel = None THEN "sms" ELSE The(user.selected_channel)

IsOnChannel(user, channel) == ChannelOfUser(user) = channel

\* users_by_channel: the users of each known channel, in the order of the list
GroupByChannel(eligible_users) ==
    [ch \in {"sms", "whatsapp", "email"} |->
        SelectSeq(eligible_users, LAMBDA user : IsOnChannel(user, ch))]

\* RateLimiter(RateLimitConfig(max_requests_per_second=tps, burst_capacity=tps * 5))
NewLimiter(throughput_tps) ==
    [tokens |-> throughput_tps * 5 * TicksPerSecond, last_refill |-> web_now]

\* the first user at or after channel number c, position i; channel 4 when none is left
RECURSIVE NextUser(_, _, _)
NextUser(groups, c, i) ==
    IF c > Len(SendChannels) THEN [channel |-> c, i |-> 0]
    ELSE IF i <= Len(groups[SendChannels[c]]) THEN [channel |-> c, i |-> i]
    ELSE NextUser(groups, c + 1, 1)

CurrentChannel == SendChannels[cursor.channel]
CurrentUser == users_by_channel[CurrentChannel][cursor.i]
Throughput == The(The(web_request)).throughput_tps

\* send_campaign up to the first send loop, or to its early return
SendCampaign(body) ==
    /\ cpc = "idle"
    /\ web_request' = Some(body)
    /\ IF Disabled(is_production)
       THEN /\ web_response' = Some(403)
            /\ UNCHANGED <<users_by_channel, rate_limiters, cpc, cursor>>
       ELSE IF \/ body = None
               \/ The(body).eligible_users = <<>>
               \/ The(body).throughput_tps <= 0
               \/ The(body).throughput_tps > 100
       THEN /\ web_response' = Some(400)
            /\ UNCHANGED <<users_by_channel, rate_limiters, cpc, cursor>>
       ELSE LET groups == GroupByChannel(The(body).eligible_users)
                first == NextUser(groups, 1, 1)
            IN  /\ users_by_channel' = groups
                /\ rate_limiters' =
                       Some([ch \in {"sms", "whatsapp", "email"} |->
                                NewLimiter(The(body).throughput_tps)])
                /\ cursor' = first
                /\ IF first.channel > Len(SendChannels)
                   THEN cpc' = "done" /\ web_response' = Some(200)
                   ELSE cpc' = "acquire" /\ web_response' = None
    /\ UNCHANGED <<is_production, can_send, web_now, dispatched, web_recorded, notWeb>>

\* can_send, retry_after = rate_limiter.acquire(1), on the limiter of the channel
AcquireForUser(next_pc) ==
    LET r == AcquireOn(The(rate_limiters)[CurrentChannel], web_now, 1, Throughput,
                       Throughput * 5 * TicksPerSecond)
    IN  /\ rate_limiters' =
               Some([The(rate_limiters) EXCEPT
                        ![CurrentChannel] = [tokens |-> r.tokens, last_refill |-> r.last_refill]])
        /\ can_send' = [ok |-> r.ok, retry_after |-> r.retry_after]
        /\ cpc' = next_pc[r.ok]
        /\ UNCHANGED <<is_production, web_request, web_response, users_by_channel, cursor,
                       web_now, dispatched, web_recorded, notWeb>>

\* the first acquire of the loop body; if not can_send: sleep
CampaignAcquire ==
    /\ cpc = "acquire"
    /\ AcquireForUser([ok \in BOOLEAN |-> IF ok THEN "send" ELSE "sleep"])

SleepCutShort(retry_after) == retry_after - 1

\* time.sleep(retry_after) returns after at least retry_after
SleepFor(retry_after) == retry_after

CampaignSleep(late) ==
    /\ cpc = "sleep"
    /\ web_now' = web_now + SleepFor(The(can_send.retry_after)) + late
    /\ cpc' = "reacquire"
    /\ UNCHANGED <<is_production, web_request, web_response, users_by_channel, rate_limiters,
                   cursor, can_send, dispatched, web_recorded, notWeb>>

\* the acquire after the sleep: whatever it returns, the message is sent next
CampaignReacquire ==
    /\ cpc = "reacquire"
    /\ AcquireForUser([ok \in BOOLEAN |-> "send"])

\* aws_messaging.send_message / aws_ses.send_email, then record_sent on success
CampaignDispatch(success) ==
    /\ cpc = "send"
    /\ dispatched' = Append(dispatched, [channel |-> CurrentChannel,
                                         customer_id |-> CurrentUser.customer_id,
                                         success |-> success])
    /\ web_recorded' = IF success
                       THEN Append(web_recorded, [channel |-> CurrentChannel,
                                                  customer_id |-> CurrentUser.customer_id])
                       ELSE web_recorded
    /\ LET next == NextUser(users_by_channel, cursor.channel, cursor.i + 1)
       IN  /\ cursor' = next
           /\ IF next.channel > Len(SendChannels)
              THEN cpc' = "done" /\ web_response' = Some(200)
              ELSE cpc' = "acquire" /\ UNCHANGED web_response
    /\ UNCHANGED <<is_production, web_request, users_by_channel, rate_limiters, can_send,
                   web_now, notWeb>>

InitCampaign ==
    /\ LimIdle /\ WaitIdle /\ DistIdle /\ FatIdle /\ TrkIdle /\ GrdIdle /\ SegIdle
    /\ AwsIdle /\ AgtIdle /\ MsgIdle /\ LateIdle
    /\ is_production \in BOOLEAN
    /\ web_request = None
    /\ web_response = None
    /\ users_by_channel = [ch \in {"sms", "whatsapp", "email"} |-> <<>>]
    /\ rate_limiters = None
    /\ cpc = "idle"
    /\ cursor = [channel |-> 1, i |-> 0]
    /\ can_send = [ok |-> FALSE, retry_after |-> None]
    /\ web_now = 0
    /\ dispatched = <<>>
    /\ web_recorded = <<>>

CampaignNext ==
    \/ \E body \in Bodies : SendCampaign(body)
    \/ CampaignAcquire
    \/ \E late \in {0, 1} : CampaignSleep(late)
    \/ CampaignReacquire
    \/ \E success \in BOOLEAN : CampaignDispatch(success)

SpecCampaign == InitCampaign /\ [][CampaignNext]_vars

C17_RequestStep ==
    (~is_production /\ web_request' # None)
    => /\ web_response' = Some(403)
       /\ rate_limiters' = None
       /\ dispatched' = <<>>
       /\ web_recorded' = <<>>
       /\ cpc' = "idle"

\* C17: outside production every send-campaign request, whatever its body, is
\* answered 403 and has no effect: no message is dispatched, no rate limiter is
\* created or consumed, nothing is recorded with the delivery tracker.
C17_DisabledOutsideProduction == [][C17_RequestStep]_vars

\* a request that production would have sent was refused
C17_Witness ==
    /\ ~is_production
    /\ web_response = Some(403)
    /\ web_request # None /\ The(web_request) # None
    /\ The(The(web_request)).throughput_tps = 1
    /\ Len(The(The(web_request)).eligible_users) = MaxUsers

\* the messages handed to the dispatch client of a channel so far
DispatchedOn(log, channel) == Len(SelectSeq(log, LAMBDA d : d.channel = channel))

\* what a bucket of rate Throughput and burst 5 x Throughput, full when the
\* request arrived, admits up to now (in tokens x TicksPerSecond)
BucketAdmits(now) == 5 * Throughput * TicksPerSecond + now * Throughput

C18_DispatchStep ==
    dispatched' # dispatched
    => /\ cpc = "send"
       /\ can_send.ok
       /\ Len(dispatched') = Len(dispatched) + 1
       /\ dispatched'[Len(dispatched')].channel = CurrentChannel
       /\ \A ch \in {"sms", "whatsapp", "email"} :
              DispatchedOn(dispatched', ch) * TicksPerSecond <= BucketAdmits(web_now)

-----------------------------------------------------------------------------
\* messaging/aws_messaging.py: AWSEndUserMessaging.send_message.
\* Text is a sequence of characters.
notMsg == <<limVars, waitVars, distVars, fatVars, grdVars, segVars, awsVars, agtVars, webVars,
           lateVars>>

Sms == <<"S", "M", "S">>
WhatsApp == <<"W", "H", "A", "T", "S", "A", "P", "P">>

\* Python's truth value of an optional string: None and "" are false
Falsy(o) == o = None \/ o = Some(<<>>)

HexDigits == <<"0", "1", "2", "3", "4", "5", "6", "7", "8", "9", "a", "b", "c", "d", "e", "f">>
Digits == <<"0", "1", "2", "3", "4", "5", "6", "7", "8", "9">>

Repeat(ch, n) == [i \in 1..n |-> ch]

\* str(uuid.uuid4()): 8-4-4-4-12 hexadecimal digits, version 4; the model draws
\* the values whose free digits are all the same digit
Uuid4(h) ==
    Repeat(h, 8) \o <<"-">> \o Repeat(h, 4) \o <<"-", "4">> \o Repeat(h, 3)
        \o <<"-", "8">> \o Repeat(h, 3) \o <<"-">> \o Repeat(h, 12)

Uuids == {Uuid4(HexDigits[k]) : k \in 1..(MaxCustomers + 1)}

\* f"dry-run-{uuid.uuid4()}"
DryRunId(uuid) == <<"d", "r", "y", "-", "r", "u", "n", "-">> \o uuid

\* the MessageId the provider returns for its k-th accepted call
ProviderId(k) == <<"m", "i", "d", "-", Digits[k + 1]>>

ValidateRequestPoolUnchecked(cl, req) ==
    IF Falsy(Some(req.destination_phone_number)) THEN Some("destination")
    ELSE IF ToUpper(req.channel) = Sms
         THEN IF Falsy(req.message_body) THEN Some("body") ELSE None
    ELSE IF ToUpper(req.channel) = WhatsApp
         THEN IF Falsy(req.template_name) THEN Some("template")
              ELSE IF Falsy(cl.whatsapp_business_account_id) THEN Some("account")
              ELSE None
    ELSE None

\* _validate_request: the error message, here its tag, or None
ValidateRequest(cl, req) ==
    IF Falsy(Some(req.destination_phone_number)) THEN Some("destination")
    ELSE IF ToUpper(req.channel) = Sms
         THEN IF Falsy(req.message_body) THEN Some("body")
              ELSE IF Falsy(cl.phone_pool_id) THEN Some("pool")
              ELSE None
    ELSE IF ToUpper(req.channel) = WhatsApp
         THEN IF Falsy(req.template_name) THEN Some("template")
              ELSE IF Falsy(cl.whatsapp_business_account_id) THEN Some("account")
              ELSE None
    ELSE None

Failure(error_code) == [success |-> FALSE, message_id |-> None, error_code |-> Some(error_code)]
Success(message_id) == [success |-> TRUE, message_id |-> Some(message_id), error_code |-> None]

\* send_message: the response and whether the provider's API was called. uuid is
\* the value uuid4 draws; outcome is what the provider's API does with a call.
SendMessageOn(cl, req, uuid, outcome, calls) ==
    IF cl.dry_run
    THEN [response |-> Success(DryRunId(uuid)), called |-> FALSE]
    ELSE IF ValidateRequest(cl, req) # None
    THEN [response |-> Failure("VALIDATION_ERROR"), called |-> FALSE]
    ELSE IF ToUpper(req.channel) \in {Sms, WhatsApp}
    THEN [response |-> IF outcome = "accepted" THEN Success(ProviderId(calls))
                       ELSE Failure(outcome),
          called |-> TRUE]
    ELSE [response |-> Failure("INVALID_CHANNEL"), called |-> FALSE]

RequestChannels ==
    {<<"s", "m", "s">>, Sms, <<"w", "h", "a", "t", "s", "a", "p", "p">>, WhatsApp,
     <<"e", "m", "a", "i", "l">>}

Requests ==
    [channel : RequestChannels,
     destination_phone_number : {<<>>, <<"+", "1", "5">>},
     message_body : {None, Some(<<>>), Some(<<"H", "i">>)},
     template_name : {None, Some(<<"p", "r", "o", "m", "o">>)}]

Clients ==
    [dry_run : BOOLEAN,
     phone_pool_id : {None, Some(<<"p", "o", "o", "l">>)},
     whatsapp_business_account_id : {None, Some(<<"w", "a", "b", "a">>)}]

ApiOutcomes == {"accepted", "ThrottlingException", "INTERNAL_ERROR"}

SendMessage(req, uuid, outcome) ==
    LET r == SendMessageOn(client, req, uuid, outcome, Len(api_calls))
    IN  /\ msg_request' = Some(req)
        /\ msg_response' = Some(r.response)
        /\ api_calls' = IF r.called THEN Append(api_calls, req) ELSE api_calls
        /\ UNCHANGED <<client, num_customers, ex_pc, ex_i, trkVars, notMsg>>

InitMessaging ==
    /\ LimIdle /\ WaitIdle /\ DistIdle /\ FatIdle /\ TrkIdle /\ GrdIdle /\ SegIdle
    /\ AwsIdle /\ AgtIdle /\ WebIdle /\ LateIdle
    /\ client \in Clients
    /\ msg_request = None
    /\ msg_response = None
    /\ api_calls = <<>>
    /\ num_customers = 0
    /\ ex_pc = "idle"
    /\ ex_i = 0

\* uuid4 is drawn in dry-run only, the provider answers outside dry-run only
MessagingNext ==
    \E req \in Requests :
        /\ IF client.dry_run
           THEN \E uuid \in Uuids : SendMessage(req, uuid, "accepted")
           ELSE \E outcome \in ApiOutcomes : SendMessage(req, Uuid4("0"), outcome)
        /\ Len(api_calls') <= MaxCalls

SpecMessaging == InitMessaging /\ [][MessagingNext]_vars

\* the requests the claim calls invalid
LacksWhatItNeeds(cl, req) ==
    \/ req.destination_phone_number = <<>>
    \/ /\ ToUpper(req.channel) = Sms
       /\ (Falsy(req.message_body) \/ cl.phone_pool_id = None)
    \/ /\ ToUpper(req.channel) = WhatsApp
       /\ (req.template_name = None \/ cl.whatsapp_business_account_id = None)

\* The claim as first stated, for every client: a request with no destination,
\* an SMS with an empty body or no phone pool, a WhatsApp request with no template
\* or no business account, is answered with success false and is never handed to
\* the provider.
C20_InvalidIsRefused ==
    (msg_request # None /\ LacksWhatItNeeds(client, The(msg_request)))
    => /\ ~The(msg_response).success
       /\ \A k \in 1..Len(api_calls) : ~LacksWhatItNeeds(client, api_calls[k])

\* C20: a client that is not in dry-run validates every request before sending:
\* a request with no destination, an SMS with an empty body or no phone pool, a
\* WhatsApp request with no template or no business account, is answered with
\* success false and is never handed to the provider; a client in dry-run hands
\* nothing to the provider.
C20_InvalidIsRefusedOutsideDryRun ==
    /\ (~client.dry_run /\ msg_request # None /\ LacksWhatItNeeds(client, The(msg_request)))
       => /\ ~The(msg_response).success
          /\ The(msg_response).error_code = Some("VALIDATION_ERROR")
    /\ \A k \in 1..Len(api_calls) : ~LacksWhatItNeeds(client, api_calls[k])
    /\ client.dry_run => api_calls = <<>>

\* a client with a WhatsApp account and no phone pool sent a WhatsApp message,
\* then refused an SMS
C20_Witness ==
    /\ ~client.dry_run
    /\ client.phone_pool_id = None
    /\ Len(api_calls) = 1
    /\ msg_request # None
    /\ ToUpper(The(msg_request).channel) = Sms
    /\ The(msg_request).destination_phone_number # <<>>
    /\ ~Falsy(The(msg_request).message_body)
    /\ The(msg_response).error_code = Some("VALIDATION_ERROR")

-----------------------------------------------------------------------------
\* example_aws_messaging.py, run with --dry-run: the campaign loop, then the
\* simulated delivery updates.

ExampleCustomers == 0..(MaxCustomers - 1)

\* f'dry-run-msg-{i}'
ExampleMessageId(i) ==
    <<"d", "r", "y", "-", "r", "u", "n", "-", "m", "s", "g", "-">> \o <<Digits[i + 1]>>

\* every key the tracker's dictionaries are asked for
ExampleIds ==
    {DryRunId(uuid) : uuid \in Uuids} \cup {ExampleMessageId(i) : i \in ExampleCustomers}

\* 'preferred_channel': 'whatsapp' if i % 3 == 0 else 'sms'
PreferredChannel(i) == IF i % 3 = 0 THEN "whatsapp" ELSE "sms"

ExampleRequest(i) ==
    IF PreferredChannel(i) = "whatsapp"
    THEN [channel |-> WhatsApp, destination_phone_number |-> <<"+", "1", "5">>,
          message_body |-> None, template_name |-> Some(<<"p", "r", "o", "m", "o">>)]
    ELSE [channel |-> Sms, destination_phone_number |-> <<"+", "1", "5">>,
          message_body |-> Some(<<"H", "i">>), template_name |-> None]

\* message_ids[:10]
UpdatedFirst == 10

InitExample ==
    /\ LimIdle /\ WaitIdle /\ DistIdle /\ FatIdle /\ GrdIdle /\ SegIdle
    /\ AwsIdle /\ AgtIdle /\ WebIdle /\ MsgIdle /\ LateIdle
    /\ trk_now = 0
    /\ deliveries = [m \in ExampleIds |-> None]
    /\ customer_history = [c \in ExampleCustomers |-> <<>>]
    /\ channel_stats = [ch \in {"sms", "whatsapp"} |-> None]
    /\ update_result = None

\* main, up to the campaign loop
ExampleStart(n) ==
    /\ ex_pc = "idle"
    /\ num_customers' = n
    /\ ex_i' = 0
    /\ ex_pc' = IF n = 0 THEN "update" ELSE "send"
    /\ UNCHANGED <<client, msg_request, msg_response, api_calls, trkVars, notMsg>>

\* one turn of the loop of send_campaign_with_rate_limiting: the limiter of the
\* manager holds more tokens than the model has customers, so can_send is true;
\* send_message, then record_sent with the id of the response
ExampleSend(uuid) ==
    /\ ex_pc = "send"
    /\ deliveries[DryRunId(uuid)] = None
    /\ LET r == SendMessageOn(client, ExampleRequest(ex_i), uuid, "accepted", Len(api_calls))
       IN  /\ msg_request' = Some(ExampleRequest(ex_i))
           /\ msg_response' = Some(r.response)
           /\ api_calls' = IF r.called THEN Append(api_calls, ExampleRequest(ex_i))
                           ELSE api_calls
           /\ IF r.response.success
              THEN TrackerRecordSent(The(r.response.message_id), ex_i, PreferredChannel(ex_i))
              ELSE UNCHANGED trkVars
    /\ IF ex_i + 1 = num_customers
       THEN ex_pc' = "update" /\ ex_i' = 0
       ELSE ex_pc' = "send" /\ ex_i' = ex_i + 1
    /\ UNCHANGED <<client, num_customers, notMsg>>

\* one turn of the loop of simulate_delivery_updates
SimulateDeliveryUpdate(delivered) ==
    /\ ex_pc = "update"
    /\ ex_i < Min(num_customers, UpdatedFirst)
    /\ IF delivered
       THEN TrackerUpdateStatus(ExampleMessageId(ex_i), "delivered", None)
       ELSE TrackerUpdateStatus(ExampleMessageId(ex_i), "failed", Some("INVALID_NUMBER"))
    /\ ex_i' = ex_i + 1
    /\ UNCHANGED <<client, msg_request, msg_response, api_calls, num_customers, ex_pc, notMsg>>

ExampleFinish ==
    /\ ex_pc = "update"
    /\ ex_i = Min(num_customers, UpdatedFirst)
    /\ ex_pc' = "done"
    /\ UNCHANGED <<client, msg_request, msg_response, api_calls, num_customers, ex_i,
                   trkVars, notMsg>>

ExampleNext ==
    \/ \E n \in 0..MaxCustomers : ExampleStart(n)
    \/ \E uuid \in Uuids : ExampleSend(uuid)
    \/ \E delivered \in BOOLEAN : SimulateDeliveryUpdate(delivered)
    \/ ExampleFinish

SpecExample == InitExample /\ [][ExampleNext]_vars

\* the recorded sends that a status update has reached
UpdatedSends ==
    {m \in DOMAIN deliveries :
        deliveries[m] # None /\ The(deliveries[m]).status \in {"delivered", "failed"}}

\* the delivered and failed counts of all channels together
CountedOutcomes ==
    LET Outcomes(st) == IF st = None THEN 0
                        ELSE The(st).total_delivered + The(st).total_failed
    IN  Outcomes(channel_stats["sms"]) + Outcomes(channel_stats["whatsapp"])

\* C19: in a dry-run of the example the simulated delivery updates are applied to
\* the sends the tracker recorded: after the run as many sends as were updated
\* (the first ten at most) are delivered or failed, and the delivered and failed
\* counters of the channels add up to that number.
C19_UpdatesReachRecordedSends ==
    ex_pc = "done"
    => /\ Cardinality(UpdatedSends) = Min(num_customers, UpdatedFirst)
       /\ CountedOutcomes = Min(num_customers, UpdatedFirst)

-----------------------------------------------------------------------------
\* data/demo_query.py: DemoQueryEngine._calculate_after_metrics.
\* Money is counted in ten-thousandths of a dollar.
notMet == <<limVars, waitVars, distVars, fatVars, trkVars, grdVars, segVars, awsVars,
           agtVars, webVars, msgVars, peerVars, grantVars, gateVars, sigVars>>

\* the prices 0.005, 0.0075 and 0.0001
WhatsAppPrice == 50
SmsPrice == 75
EmailPrice == 1

\* a results dictionary with n eligible users: the first w routed to WhatsApp, the
\* next e tagged email and the next o tagged sms in time_optimized, the others
\* not tagged at all
ResultsOf(n, w, e, o) ==
    [eligible_users |-> [i \in 1..n |-> i],
     whatsapp_routing |-> [i \in 1..w |-> [customer_id |-> i]],
     time_optimized |->
        [i \in 1..n |->
            [customer_id |-> i,
             selected_channel |-> IF i > w /\ i <= w + e THEN Some("email")
                                  ELSE IF i > w + e /\ i <= w + e + o THEN Some("sms")
                                  ELSE None]]]

ResultsInputs ==
    {ResultsOf(n, w, e, o) :
        n \in 0..MaxEligible, w \in 0..MaxEligible,
        e \in 0..MaxEligible, o \in 0..MaxEligible} \cup {ResultsOf(100, 30, 10, 60)}

\* for user in time_optimized: if user.get("selected_channel") == "email"
EmailUsers(time_optimized) ==
    Len(SelectSeq(time_optimized, LAMBDA user : user.selected_channel = Some("email")))

SmsUsersEmailIncluded(eligible, whatsapp_users, email_users) == eligible - whatsapp_users

\* sms_users = eligible - whatsapp_users - email_users
SmsUsers(eligible, whatsapp_users, email_users) == eligible - whatsapp_users - email_users

CalculateAfterMetricsOn(r) ==
    LET eligible == Len(r.eligible_users)
        whatsapp_users == Len(r.whatsapp_routing)
        email_users == EmailUsers(r.time_optimized)
        sms_users == SmsUsers(eligible, whatsapp_users, email_users)
        whatsapp_cost == whatsapp_users * WhatsAppPrice
        sms_cost == sms_users * SmsPrice
        email_cost == email_users * EmailPrice
    IN  [total_sent |-> eligible,
         channel_mix |-> [whatsapp |-> whatsapp_users, sms |-> sms_users, email |-> email_users],
         total_cost |-> whatsapp_cost + sms_cost + email_cost]

CalculateAfterMetrics ==
    /\ after_metrics = None
    /\ after_metrics' = Some(CalculateAfterMetricsOn(results))
    /\ UNCHANGED <<results, notMet>>

InitMetrics ==
    /\ LimIdle /\ WaitIdle /\ DistIdle /\ FatIdle /\ TrkIdle /\ GrdIdle /\ SegIdle
    /\ AwsIdle /\ AgtIdle /\ WebIdle /\ MsgIdle /\ PeerIdle /\ GrantIdle /\ GateIdle /\ SigIdle
    /\ results \in ResultsInputs
    /\ Len(results.whatsapp_routing) <= Len(results.eligible_users)
    /\ after_metrics = None

SpecMetrics == InitMetrics /\ [][CalculateAfterMetrics]_vars

\* C21: the after-metrics total cost is whatsapp x 0.005 + sms x 0.0075 + email x
\* 0.0001 over a channel mix whose three counts sum to the eligible count; for 100
\* eligible users, 30 on WhatsApp, 60 on SMS and 10 on email it is 0.601.
C21_AfterCost ==
    after_metrics # None
    => LET m == The(after_metrics)
       IN  /\ m.channel_mix.whatsapp + m.channel_mix.sms + m.channel_mix.email
                 = Len(results.eligible_users)
           /\ m.total_cost = m.channel_mix.whatsapp * 50 + m.channel_mix.sms * 75
                             + m.channel_mix.email * 1
           /\ m.total_cost = 50 * Len(results.whatsapp_routing)
                             + 75 * (Len(results.eligible_users) - Len(results.whatsapp_routing)
                                     - EmailUsers(results.time_optimized))
                             + EmailUsers(results.time_optimized)
           /\ (m.total_sent = 100 /\ m.channel_mix.whatsapp = 30 /\ m.channel_mix.email = 10)
              => (m.channel_mix.sms = 60 /\ m.total_cost = 6010)

\* the metrics of the mix 30 / 60 / 10 over 100 eligible users were computed
C21_Witness ==
    /\ after_metrics # None
    /\ Len(results.eligible_users) = 100
    /\ Len(results.whatsapp_routing) = 30
    /\ The(after_metrics).channel_mix.email = 10

-----------------------------------------------------------------------------
\* The risk rules read as a priority list: the outcome that the first matching rule
\* alone would set.
PriorityOutcome(req) ==
    LET negative == req.sentiment_analysis.overall_sentiment = "negative"
        promo == AnalyzeMessageContent(req.message_type,
                                       req.has_promotional_keyword).is_promotional
        recent == /\ req.recent_interactions # None
                  /\ The(req.recent_interactions) # None
                  /\ VeryRecent(The(The(req.recent_interactions)))
    IN  IF negative /\ promo
        THEN [approved |-> FALSE, risk_level |-> "high", confidence |-> 90]
        ELSE IF req.has_support_issues /\ promo
        THEN [approved |-> FALSE, risk_level |-> "high", confidence |-> 95]
        ELSE IF req.sentiment_analysis.negative_interactions > 1
        THEN [approved |-> ~promo, risk_level |-> "medium", confidence |-> 70]
        ELSE IF recent /\ negative
        THEN [approved |-> FALSE, risk_level |-> "high", confidence |-> 85]
        ELSE [approved |-> TRUE, risk_level |-> "low", confidence |-> 80]

\* C22: the guardrail's risk rules are applied in priority order and the first rule
\* that matches fixes approval, risk level and confidence; rules that match later
\* add blocked reasons or alternative actions only.
C22_FirstMatchFixesOutcome ==
    safety # None
    => LET r == The(safety)
       IN  [approved |-> r.approved, risk_level |-> r.risk_level,
            confidence |-> r.confidence] = PriorityOutcome(request)

-----------------------------------------------------------------------------
\* Two store-backed fatigue engines (two processes) on the same frequency table.
notPeer == <<limVars, waitVars, distVars, trkVars, grdVars, segVars, agtVars, webVars,
            msgVars, metVars, grantVars, gateVars, sigVars>>

\* track_communication_frequency on the second engine; put_item succeeds
PeerTrackCommunicationFrequency(c, channel) ==
    /\ TotalTracked < MaxTracked
    /\ LET f == IF peer_frequency_tracking[c] = None THEN NewFrequency
                ELSE The(peer_frequency_tracking[c])
           tracked_f == TrackFrequency(f, channel, utcnow)
       IN  /\ peer_frequency_tracking' = [peer_frequency_tracking EXCEPT ![c] = Some(tracked_f)]
           /\ frequency_table' = [frequency_table EXCEPT ![c] = Some(FrequencyItem(tracked_f))]
    /\ tracked' = [tracked EXCEPT ![c] = Append(@, utcnow)]
    /\ fatigue_result' = None
    /\ aws_last' = None
    /\ UNCHANGED <<utcnow, frequency_tracking, disengagement_signals, notPeer>>

\* check_fatigue on the second engine, as far as the frequency record goes: the
\* loaded record replaces the in-memory one
PeerCheckFatigue(c) ==
    /\ peer_frequency_tracking' =
           [peer_frequency_tracking EXCEPT ![c] = Some(LoadFrequencyFromDynamoDB(c, FALSE))]
    /\ fatigue_result' = None
    /\ aws_last' = None
    /\ UNCHANGED <<utcnow, frequency_tracking, disengagement_signals, tracked,
                   frequency_table, notPeer>>

\* every call is made at the same instant and the store never fails
TwoEnginesNext ==
    \/ \E c \in Customers, channel \in ChannelType :
           AwsTrackCommunicationFrequency(c, channel, FALSE)
    \/ \E c \in Customers, channel \in ChannelType : PeerTrackCommunicationFrequency(c, channel)
    \/ \E c \in Customers : AwsCheckFatigue(c, FALSE)
    \/ \E c \in Customers : PeerCheckFatigue(c)

SpecTwoEngines == InitAws /\ [][TwoEnginesNext]_vars

\* C23: each track call starts from the state persisted in the store, so the sends
\* tracked for the same customer by another engine instance are in the counters it
\* persists: no tracked send is lost.
C23_NoTrackedSendLost ==
    \A c \in Customers :
        tracked[c] # <<>>
        => /\ frequency_table[c] # None
           /\ The(frequency_table[c]).monthly_count = Len(tracked[c])

-----------------------------------------------------------------------------
\* The in-memory limiter with a record of what it granted and when.
notGrant == <<waitVars, distVars, fatVars, trkVars, grdVars, segVars, awsVars,
             agtVars, webVars, msgVars, metVars, peerVars, gateVars, sigVars>>

\* the instants the record of grants is followed for
MaxGrantClock == 4

GrantTick ==
    /\ clock < MaxGrantClock
    /\ LimiterTick
    /\ UNCHANGED <<granted_at, notGrant>>

GrantAcquire(n) ==
    /\ LimiterAcquire(n)
    /\ granted_at' = IF acquired'.ok
                     THEN [granted_at EXCEPT ![clock] = @ + n * TicksPerSecond]
                     ELSE granted_at
    /\ UNCHANGED notGrant

InitGrant ==
    /\ LimInit /\ WaitIdle /\ DistIdle /\ RestIdle

GrantNext ==
    \/ GrantTick
    \/ \E n \in Counts : GrantAcquire(n)

SpecGrant == InitGrant /\ [][GrantNext]_vars

\* the tokens granted from instant a to instant b, both included
RECURSIVE GrantedBetween(_, _)
GrantedBetween(a, b) == IF a > b THEN 0 ELSE granted_at[a] + GrantedBetween(a + 1, b)

\* C24: whatever acquire(n) calls are made, n >= 1, the stored token count stays
\* within [0, burst capacity] and the tokens granted during any interval of T
\* seconds are at most burst capacity + rate x T.
C24_BucketBound ==
    /\ tokens >= 0
    /\ tokens <= config.burst_capacity * TicksPerSecond
    /\ \A a \in 0..clock : \A b \in a..clock :
           GrantedBetween(a, b)
               <= config.burst_capacity * TicksPerSecond
                  + config.max_requests_per_second * (b - a)

\* the burst was granted at once, and tokens refilled later were granted as well
C24_Witness ==
    /\ granted_at[0] = config.burst_capacity * TicksPerSecond
    /\ clock > 0
    /\ granted_at[clock] > 0
    /\ tokens = 0

-----------------------------------------------------------------------------
\* A caller that asks check_fatigue before each send and tracks only the sends
\* that were allowed; no disengagement signal is ever recorded.
notGate == <<limVars, waitVars, distVars, trkVars, grdVars, segVars, awsVars,
            agtVars, webVars, msgVars, metVars, peerVars, grantVars, sigVars>>

FrequencyLimitReached(f) ==
    \/ f.daily_count >= daily_threshold
    \/ f.weekly_count >= weekly_threshold

GateCheck(c) ==
    LET r == CheckFatigue(c, utcnow)
        f == frequency_tracking[c]
    IN  /\ fatigue_result' = Some(r)
        /\ blocked_at' = IF /\ blocked_at = None
                            /\ ~r.allow_message
                            /\ f # None /\ FrequencyLimitReached(The(f))
                         THEN Some([customer_id |-> c, at |-> utcnow,
                                    recommended_delay |-> r.recommended_delay])
                         ELSE blocked_at
        /\ UNCHANGED <<utcnow, frequency_tracking, disengagement_signals, tracked>>
        /\ UNCHANGED notGate

\* the send that the last check allowed is made and tracked
GateTrack(c, channel) ==
    /\ fatigue_result # None
    /\ The(fatigue_result).customer_id = c
    /\ The(fatigue_result).allow_message
    /\ TotalTracked < MaxTracked
    /\ LET f == IF frequency_tracking[c] = None THEN NewFrequency
                ELSE The(frequency_tracking[c])
       IN  frequency_tracking' =
               [frequency_tracking EXCEPT ![c] = Some(TrackFrequency(f, channel, utcnow))]
    /\ tracked' = [tracked EXCEPT ![c] = Append(@, utcnow)]
    /\ fatigue_result' = None
    /\ UNCHANGED <<utcnow, disengagement_signals, blocked_at>>
    /\ UNCHANGED notGate

GateAdvance(t) ==
    /\ t > utcnow
    /\ utcnow' = t
    /\ fatigue_result' = None
    /\ UNCHANGED <<frequency_tracking, disengagement_signals, tracked, blocked_at>>
    /\ UNCHANGED notGate

GateNext ==
    \/ \E t \in TimePoints : GateAdvance(t)
    \/ \E c \in Customers : GateCheck(c)
    \/ \E c \in Customers, channel \in ChannelType : GateTrack(c, channel)

SpecGate == InitFatigue /\ [][GateNext]_vars

\* C25: when only allowed sends are tracked and no disengagement signal is recorded,
\* a customer blocked for reaching a frequency limit is allowed again by a
\* check_fatigue made once the recommended delay of that block has elapsed.
C25_BlockEndsAfterDelay ==
    (/\ blocked_at # None
     /\ fatigue_result # None
     /\ The(fatigue_result).customer_id = The(blocked_at).customer_id
     /\ utcnow >= The(blocked_at).at + The(blocked_at).recommended_delay * Minute)
        => The(fatigue_result).allow_message

-----------------------------------------------------------------------------
\* C26: after any record_sent and update_status calls, no channel has more
\* messages delivered than sent (total_delivered <= total_sent), so that its
\* delivery_rate, delivered / sent x 100, is at most 100.
C26_DeliveredWithinSent ==
    \A ch \in TrkChannels :
        channel_stats[ch] # None
        => The(channel_stats[ch]).total_delivered <= The(channel_stats[ch]).total_sent

-----------------------------------------------------------------------------
\* The store-backed engine and its disengagement signals: record_disengagement_signal
\* keeps the signal in memory and creates a task that writes it to the signals
\* table; check_fatigue reads the table and replaces the in-memory list by what
\* it read.
notSig == <<limVars, waitVars, distVars, trkVars, grdVars, segVars, agtVars, webVars,
           msgVars, metVars, peerVars, grantVars, gateVars>>

\* record_disengagement_signal, with a signal stamped now
AwsRecordDisengagementSignal(c, signal_type, severity) ==
    LET signal == [signal_type |-> signal_type, timestamp |-> utcnow, severity |-> severity]
    IN  /\ Len(signals_recorded[c]) <= MaxSignals
        /\ disengagement_signals' = [disengagement_signals EXCEPT ![c] = Append(@, signal)]
        /\ pending_saves' = Append(pending_saves, [customer_id |-> c, signal |-> signal])
        /\ signals_recorded' = [signals_recorded EXCEPT ![c] = Append(@, signal)]
        /\ fatigue_result' = None
        /\ aws_last' = None
        /\ UNCHANGED <<utcnow, frequency_tracking, tracked, frequency_table, signals_table>>
        /\ UNCHANGED notSig

\* the oldest task runs _save_signal_to_dynamodb: put_item stores the signal or raises
SaveSignalToDynamoDB(put_item_raises) ==
    /\ pending_saves # <<>>
    /\ LET task == Head(pending_saves)
       IN  signals_table' =
               IF put_item_raises THEN signals_table
               ELSE [signals_table EXCEPT ![task.customer_id] = Append(@, task.signal)]
    /\ pending_saves' = Tail(pending_saves)
    /\ fatigue_result' = None
    /\ aws_last' = None
    /\ UNCHANGED <<utcnow, frequency_tracking, disengagement_signals, tracked,
                   frequency_table, signals_recorded>>
    /\ UNCHANGED notSig

\* _load_signals_from_dynamodb: the stored signals of the window, [] when query raises
LoadSignalsFromDynamoDB(c, now, query_raises) ==
    IF query_raises THEN <<>>
    ELSE SelectSeq(signals_table[c],
                   LAMBDA s : s.timestamp >= now - disengagement_window_days * Day)

\* check_fatigue of the store-backed engine
SigCheckFatigue(c, query_raises) ==
    /\ UNCHANGED <<utcnow, tracked, frequency_table, sigVars>>
    /\ frequency_tracking' =
           [frequency_tracking EXCEPT ![c] = Some(LoadFrequencyFromDynamoDB(c, FALSE))]
    /\ disengagement_signals' =
           [disengagement_signals EXCEPT ![c] = LoadSignalsFromDynamoDB(c, utcnow, query_raises)]
    /\ fatigue_result' = Some(CheckFatigue(c, utcnow))'
    /\ aws_last' = None
    /\ UNCHANGED notSig

SigAdvance(t) ==
    /\ t > utcnow
    /\ utcnow' = t
    /\ fatigue_result' = None
    /\ aws_last' = None
    /\ UNCHANGED <<frequency_tracking, disengagement_signals, tracked, frequency_table,
                   sigVars>>
    /\ UNCHANGED notSig

SigNext ==
    \/ \E t \in TimePoints : SigAdvance(t)
    \/ \E c \in Customers, severity \in Severities :
           AwsRecordDisengagementSignal(c, "unsubscribe", severity)
    \/ \E put_item_raises \in BOOLEAN : SaveSignalToDynamoDB(put_item_raises)
    \/ \E c \in Customers, query_raises \in BOOLEAN : SigCheckFatigue(c, query_raises)

SpecSignalStore == InitAws /\ [][SigNext]_vars

\* C27: once record_disengagement_signal has returned for a signal of severity
\* above 0.7, each later store-backed check_fatigue for that customer within the
\* lookback window blocks the message, whether the signal's write to the store
\* has completed, is still to come, or has failed.
C27_RecordedStrongSignalBlocks ==
    fatigue_result # None
    => LET c == The(fatigue_result).customer_id
       IN  (\E i \in 1..Len(signals_recorded[c]) :
                /\ signals_recorded[c][i].severity > StrongSeverity
                /\ signals_recorded[c][i].timestamp >= utcnow - disengagement_window_days * Day)
           => ~The(fatigue_result).allow_message

-----------------------------------------------------------------------------
\* the check found no disengagement signal in the lookback window, neither a
\* recorded one nor the low_engagement one derived from the frequency record
NoSignalInWindow(c) == DetectDisengagementSignals(c, utcnow) = <<>>

\* the record the check was made on
CheckedFrequency(c) ==
    IF frequency_tracking[c] = None THEN NewFrequency ELSE The(frequency_tracking[c])

\* C28 as stated: with no disengagement signal in the lookback window, check_fatigue
\* blocks a customer only if the daily count has reached 3, the weekly count 10
\* or the monthly count 30.
C28_BlocksOnlyAtThreshold ==
    (/\ fatigue_result # None
     /\ NoSignalInWindow(The(fatigue_result).customer_id)
     /\ ~The(fatigue_result).allow_message)
    => LET f == CheckedFrequency(The(fatigue_result).customer_id)
       IN  \/ f.daily_count >= daily_threshold
           \/ f.weekly_count >= weekly_threshold
           \/ f.monthly_count >= monthly_threshold

\* C28, amended: with no disengagement signal in the lookback window, check_fatigue
\* blocks a customer only if a count has reached nine tenths of its limit: the
\* daily count 3, the weekly count 9 or the monthly count 27.
C28_BlocksOnlyAtNineTenths ==
    (/\ fatigue_result # None
     /\ NoSignalInWindow(The(fatigue_result).customer_id)
     /\ ~The(fatigue_result).allow_message)
    => LET f == CheckedFrequency(The(fatigue_result).customer_id)
       IN  \/ f.daily_count >= 3
           \/ f.weekly_count >= 9
           \/ f.monthly_count >= 27

\* a customer is blocked with the weekly count at 9 and no limit reached
C28_Witness ==
    /\ fatigue_result # None
    /\ ~The(fatigue_result).allow_message
    /\ NoSignalInWindow(The(fatigue_result).customer_id)
    /\ LET f == CheckedFrequency(The(fatigue_result).customer_id)
       IN  /\ f.daily_count < daily_threshold
           /\ f.weekly_count = 9
           /\ f.monthly_count < 27

-----------------------------------------------------------------------------
\* C29: after any tracked sends, whatever the time elapsed between them, each
\* customer's daily count is at most the weekly count, which is at most the
\* monthly count.
C29_CountsAreNested ==
    \A c \in Customers :
        frequency_tracking[c] # None
        => /\ The(frequency_tracking[c]).daily_count <= The(frequency_tracking[c]).weekly_count
           /\ The(frequency_tracking[c]).weekly_count <= The(frequency_tracking[c]).monthly_count

\* sends more than a day and more than a week apart: the daily and the weekly
\* count were reset and the monthly count kept all the sends
C29_Witness ==
    \E c \in Customers :
        /\ frequency_tracking[c] # None
        /\ Len(tracked[c]) >= 3
        /\ The(frequency_tracking[c]).daily_count = 1
        /\ The(frequency_tracking[c]).weekly_count < The(frequency_tracking[c]).monthly_count
        /\ The(frequency_tracking[c]).monthly_count = Len(tracked[c])

-----------------------------------------------------------------------------
\* C30: when a send-campaign request is accepted in production, every user of
\* eligible_users is counted once, as sent or as failed: total_sent + total_failed
\* is the number of eligible users.
C30_EveryUserCounted ==
    (is_production /\ web_response = Some(200))
    => Len(dispatched) = Len(The(The(web_request)).eligible_users)

====
